---- MODULE Spec2Model ----
(***************************************************************************)
(* Luna voice assistant: the speech listener (modul_stt.py), the chat      *)
(* memory (modul_memory.py) and the response cycle of the GUI (gui.py,     *)
(* modul_ai.py), as state machines.                                        *)
(***************************************************************************)
EXTENDS Integers, Sequences, FiniteSets, TLC

(***************************************************************************)
(* Configuration (config.py).  The three durations are scaled down so that *)
(* the frame counts derived from them stay small; the derivation itself    *)
(* (duration / frame duration, truncated) is the code's, and so is their   *)
(* order: silence threshold < minimum voiced < maximum voiced.             *)
(***************************************************************************)
STT_SAMPLE_RATE == 16000
STT_FRAME_DURATION_MS == 30
STT_MIN_VOLUME == 300
\* config.py has 800, 1000 and 10000 (26, 33 and 333 frames)
STT_SILENCE_THRESHOLD_MS == 30
STT_MIN_VOICED_MS == 90
STT_MAX_VOICED_MS == 120
MIN_RECORDING_BYTES == 2000

\* Bounds of the model
MaxFrames == 6      \* frames the microphone queues in one behaviour
MaxQueue == 2       \* frames waiting in audio_queue
MaxSessions == 2    \* start_listening calls, one worker thread each
MaxQuiet == 2       \* frames in a row under the volume floor

silence_threshold == STT_SILENCE_THRESHOLD_MS \div STT_FRAME_DURATION_MS
min_voiced_frames == STT_MIN_VOICED_MS \div STT_FRAME_DURATION_MS
max_voiced_frames == STT_MAX_VOICED_MS \div STT_FRAME_DURATION_MS
\* one frame: blocksize samples of int16
frame_size == (STT_SAMPLE_RATE * STT_FRAME_DURATION_MS) \div 1000
FrameBytes == frame_size * 2

VARIABLES
    \* ---- SpeechListener ----
    is_listening,           \* self.is_listening
    is_speaking,            \* self.is_speaking
    voiced_frames_buffer,   \* self.voiced_frames_buffer
    silent_frames_count,    \* self.silent_frames_count
    audio_queue,            \* self.audio_queue
    stream_active,          \* self.stream started and not stopped
    pc,                     \* position of each thread (caller and workers)
    frame,                  \* the frame a worker took from the queue
    recording,              \* recording_bytes of _process_and_transcribe_buffer
    site,                   \* the call site of _process_and_transcribe_buffer
    sessions,               \* start_listening calls so far
    captured,               \* frames queued by the audio callback so far
    handed,                 \* history: utterances handed to _transcribe_audio
    boundary,               \* history: the last silence boundary
    stop_seen,              \* history: the buffer stop_listening found
    quiet,                  \* history: frames in a row the callback did not queue
    \* ---- ChatMemory ----
    history,                \* self.history
    max_memory_size,        \* self.max_memory_size
    memory_file,            \* the content of the file self.memory_file names
    clock,                  \* datetime.now(), as a logical clock
    loaded,                 \* history: what _load_memory read at construction
    added,                  \* history: the messages add_message was given
    cleared,                \* history: clear_memory has been called
    disk,                   \* what open(memory_file, "w") and the write meet
    mem_call,               \* history: the last call on the ChatMemory, what it raised
    got,                    \* the list a caller holds from get_history
    \* ---- AssistantApp, TTSManager and the generators of modul_ai ----
    gui_is_listening,       \* AssistantApp.is_listening
    gui_is_speaking,        \* AssistantApp.is_speaking
    is_processing,          \* self.is_processing
    current_assistant_bubble, \* self.current_assistant_bubble, 0 for None
    sentence_buffer,        \* self.sentence_buffer
    message_count,          \* self.message_count
    last_input_time,        \* self.last_input_time: 0, or 1 once set
    controls_disabled,      \* the state _toggle_buttons gave the input widgets
    bubbles,                \* the MessageBubble widgets created so far
    after_queue,            \* callbacks scheduled with self.after
    ui,                     \* what the event loop's thread is doing
    gens,                   \* the generators ask_ollama returned
    turns,                  \* generators created so far
    tts_waiting,            \* _speak_task threads waiting for audio_lock
    tts_playing,            \* a _speak_task thread holds audio_lock
    spoken,                 \* speech threads created so far that the model follows
    closed,                 \* the window has been destroyed
    input_log,              \* history: inputs _process_input handled, ignored
    results,                \* transcription results delivered so far
    clears,                 \* Clear Chat clicks so far
    \* ---- TTSManager (modul_tts.py) ----
    tts_tasks,              \* the _speak_task threads started by speak
    audio_lock,             \* self.audio_lock: 0 when free, else the holder
    callbacks,              \* history: on_speaking_start / on_speaking_stop calls
    played,                 \* history: the texts handed to sd.play, in order
    \* ---- get_intent / execute_command_directly ----
    ai_pc,                  \* where ask_ollama is
    llm_reply,              \* the outcome of the classification call
    intent,                 \* what get_intent returned or raised
    cmd_out,                \* what execute_command_directly yielded, started, raised
    shortcut_log,           \* history: the calls of run_shortcut made on its own
    payload,                \* the prompt ask_ollama_chat built last
    \* ---- SpeechListener._transcribe_audio ----
    tr_log,                 \* history: what each call of _transcribe_audio did
    temp_file,              \* Config.TEMP_AUDIO_FILE exists
    tmp_call,               \* per thread: where it is between wav.write and the return
    tmp_calls,              \* history: how many recordings were written to the file
    heard                   \* history: the calls of on_transcription_result

sttVars == <<is_listening, is_speaking, voiced_frames_buffer, silent_frames_count,
             audio_queue, stream_active, pc, frame, recording, site, sessions,
             captured, handed, boundary, stop_seen, quiet>>

memVars == <<history, max_memory_size, memory_file, clock, loaded, added, cleared, disk,
             mem_call, got>>

guiVars == <<gui_is_listening, gui_is_speaking, is_processing, current_assistant_bubble,
             sentence_buffer, message_count, last_input_time, controls_disabled, bubbles,
             after_queue, ui, gens, turns, tts_waiting, tts_playing, spoken, closed,
             input_log, results, clears>>

\* TTSManager on its own
ttsVars == <<tts_tasks, audio_lock, callbacks, played>>

\* the state of the components that are exercised on their own
\* the intent router on its own
aiVars == <<ai_pc, llm_reply, intent, cmd_out, shortcut_log, payload>>

\* the transcription on its own
trVars == <<tr_log, temp_file, tmp_call, tmp_calls, heard>>
\* the library components but the history of transcription results
heardRest == <<ttsVars, aiVars, tr_log, temp_file, tmp_call, tmp_calls>>

libVars == <<ttsVars, aiVars, trVars>>

vars == <<sttVars, memVars, guiVars, libVars>>

\* the listener's state apart from is_listening
sttRest == <<is_speaking, voiced_frames_buffer, silent_frames_count, audio_queue,
             stream_active, pc, frame, recording, site, sessions, captured, handed,
             boundary, stop_seen, quiet>>

\* what the speech listener leaves alone
notSTT == <<memVars, guiVars, libVars>>
\* what the chat memory leaves alone
notMem == <<sttVars, guiVars, libVars>>

Caller == 0
Workers == 1..MaxSessions
Threads == {Caller} \cup Workers

(***************************************************************************)
(* ChatMemory (modul_memory.py)                                            *)
(***************************************************************************)
MAX_MEMORY_SIZE == 10

\* Bounds of the model
MaxMemorySize == 3  \* the largest max_memory_size a ChatMemory is built with
MaxFileLen == 4     \* the most entries the memory file holds at construction
MaxAdds == 5        \* add_message calls in one behaviour

Roles == {"user", "assistant"}
\* a content with the characters JSON writes with a backslash
Contents == {<<"h", "\"", "\\", "\n">>}

Message(role, content, timestamp) ==
    [role |-> role, content |-> content, timestamp |-> timestamp]

\* an entry written by an earlier run of the program
OldMessage == Message("user", <<"o", "l", "d">>, 0)

\* an item of a JSON array that is no message: {"note": "x"}
NotAMessage == [note |-> <<"x">>]

RECURSIVE JsonEscape(_)
\* json.dump of a string, the quotes left out: ", \ and the newline are
\* written with a backslash (ensure_ascii=False leaves the rest as it is)
JsonEscape(s) ==
    IF s = <<>> THEN <<>>
    ELSE (CASE Head(s) = "\"" -> <<"\\", "\"">>
            [] Head(s) = "\\" -> <<"\\", "\\">>
            [] Head(s) = "\n" -> <<"\\", "n">>
            [] OTHER -> <<Head(s)>>) \o JsonEscape(Tail(s))

RECURSIVE JsonUnescape(_)
\* json.load of what stands between the quotes of a string
JsonUnescape(s) ==
    IF s = <<>> THEN <<>>
    ELSE IF Head(s) = "\\" /\ Len(s) >= 2
    THEN <<(IF s[2] = "n" THEN "\n" ELSE s[2])>> \o JsonUnescape(Tail(Tail(s)))
    ELSE <<Head(s)>> \o JsonUnescape(Tail(s))

\* the items of the array json.dump writes for a history, and the list
\* json.load makes of the items of an array
Dump(h) ==
    [i \in DOMAIN h |-> IF "content" \in DOMAIN h[i]
                          THEN [h[i] EXCEPT !.content = JsonEscape(@)] ELSE h[i]]
Parse(entries) ==
    [i \in DOMAIN entries |-> IF "content" \in DOMAIN entries[i]
                                THEN [entries[i] EXCEPT !.content = JsonUnescape(@)]
                                ELSE entries[i]]

\* the memory file: missing, unreadable (no permission, bytes that are not
\* UTF-8), not valid JSON, or a JSON array
File(kind, entries) == [kind |-> kind, entries |-> entries]
FileContents ==
    {File("missing", <<>>), File("corrupt", <<>>), File("unreadable", <<>>),
     File("array", <<NotAMessage>>)}
        \cup {File("array", [i \in 1..n |-> OldMessage]) : n \in 0..MaxFileLen}

\* _load_memory: except (FileNotFoundError, json.JSONDecodeError)
LoadRaises(file) == IF file.kind = "unreadable" THEN "PermissionError" ELSE "none"

\* _load_memory: self.history = json.load(file), or [] in the except clause
LoadMemory(file) == IF file.kind = "array" THEN Parse(file.entries) ELSE <<>>

\* Python's seq[-n:]
SliceLast(seq, n) ==
    IF n = 0 THEN seq
    ELSE IF n >= Len(seq) THEN seq
    ELSE SubSeq(seq, Len(seq) - n + 1, Len(seq))

\* the history add_message leaves: append, then keep the most recent ones
AddMessage(h, size, m) ==
    LET appended == Append(h, m)
    IN  IF Len(appended) > size THEN SliceLast(appended, size) ELSE appended

\* the file can be written, cannot be opened for writing, or fills the disk
Disks == {"ok", "unwritable", "full"}

\* what open(..., "w") or the write raises
SaveError == CASE disk = "ok" -> "none"
               [] disk = "unwritable" -> "PermissionError"
               [] disk = "full" -> "OSError"

\* except IOError as e: IOError is OSError, PermissionError one of its kinds
ExceptIOError(err) == IF err \in {"OSError", "PermissionError"} THEN "none" ELSE err

\* a file that is added to and never rewritten
SaveMemoryAppend(h) ==
    memory_file' = CASE disk = "ok" ->
                          File("array", (IF memory_file.kind = "array"
                                           THEN memory_file.entries ELSE <<>>)
                                        \o Dump(IF h = <<>> THEN <<>> ELSE <<h[Len(h)]>>))
                     [] disk = "unwritable" -> memory_file
                     [] disk = "full" -> File("corrupt", <<>>)

\* _save_memory: the file is rewritten in full; an IOError is logged and the
\* file is left as it was or left half written
SaveMemory(h) ==
    memory_file' = CASE disk = "ok" -> File("array", Dump(h))
                     [] disk = "unwritable" -> memory_file
                     [] disk = "full" -> File("corrupt", <<>>)

\* the last call: what was called, what it raised, whether it wrote the file
Call(op, raised, wrote) == [op |-> op, raised |-> raised, wrote |-> wrote]

\* the list a caller holds: its items, whether it is the list self.history
\* names, whether the caller has changed it
NoList == [items |-> <<>>, shared |-> FALSE, state |-> "none"]

\* ChatMemory(memory_file, max_memory_size)
ConstructMemory(file, size) ==
    /\ max_memory_size = size
    /\ memory_file = file
    /\ history = LoadMemory(file)
    /\ loaded = LoadMemory(file)
    /\ clock = 0
    /\ added = <<>>
    /\ cleared = FALSE
    /\ disk = "ok"
    /\ mem_call = Call("init", LoadRaises(file), FALSE)
    /\ got = NoList

\* there is a ChatMemory: its constructor returned
Constructed == mem_call.op # "init" \/ mem_call.raised = "none"

add_message(role, content) ==
    LET m == Message(role, content, clock + 1)
    IN  /\ history' = AddMessage(history, max_memory_size, m)
        /\ SaveMemory(history')
        /\ clock' = clock + 1
        /\ added' = Append(added, m)
        /\ mem_call' = Call("add_message", ExceptIOError(SaveError), disk = "ok")
        /\ got' = IF got.shared /\ ~(Len(history) + 1 > max_memory_size)
                    THEN [got EXCEPT !.items = history']
                    ELSE [got EXCEPT !.shared = FALSE]
        /\ UNCHANGED <<max_memory_size, loaded, cleared, disk>>

\* self.history.clear() alone
clear_history_only ==
    /\ history' = <<>>
    /\ cleared' = TRUE
    /\ mem_call' = Call("clear_memory", "none", disk = "ok")
    /\ got' = IF got.shared THEN [got EXCEPT !.items = <<>>] ELSE got
    /\ UNCHANGED <<max_memory_size, clock, loaded, added, disk, memory_file>>

clear_memory ==
    /\ history' = <<>>
    /\ SaveMemory(history')
    /\ cleared' = TRUE
    /\ mem_call' = Call("clear_memory", ExceptIOError(SaveError), disk = "ok")
    /\ got' = IF got.shared THEN [got EXCEPT !.items = <<>>] ELSE got
    /\ UNCHANGED <<max_memory_size, clock, loaded, added, disk>>

\* get_history: a copy of the list
get_history == history

\* return self.history: the list itself
SameList(list) == [items |-> list, shared |-> TRUE, state |-> "got"]

\* self.history.copy(): a new list of the same items
ListCopy(list) == [items |-> list, shared |-> FALSE, state |-> "got"]

\* the module-level chat_memory of modul_ai.py, before any turn
MemIdle == ConstructMemory(File("missing", <<>>), MAX_MEMORY_SIZE)

InitMem ==
    /\ \E file \in FileContents, size \in 0..MaxMemorySize : ConstructMemory(file, size)

MemAdd ==
    /\ Constructed
    /\ Len(added) < MaxAdds
    /\ \E role \in Roles, content \in Contents : add_message(role, content)
    /\ UNCHANGED notMem

MemClear ==
    /\ Constructed
    /\ clear_memory
    /\ UNCHANGED notMem

\* the environment of _save_memory: the file system changes under the program
DiskChange ==
    /\ \E d \in Disks \ {disk} : disk' = d
    /\ UNCHANGED <<history, max_memory_size, memory_file, clock, loaded, added, cleared,
                   mem_call, got>>
    /\ UNCHANGED notMem

\* history = chat_memory.get_history() in a caller
MemGet ==
    /\ Constructed
    /\ got' = ListCopy(get_history)
    /\ UNCHANGED <<history, max_memory_size, memory_file, clock, loaded, added, cleared,
                   disk, mem_call>>
    /\ UNCHANGED notMem

\* the caller appends to the list it got, or removes its first or last item;
\* a list that is self.history itself is the history that changes
MemChange ==
    /\ got.state = "got"
    /\ \E items \in {Append(got.items, NotAMessage)}
                     \cup (IF got.items = <<>> THEN {}
                           ELSE {Tail(got.items),
                                 SubSeq(got.items, 1, Len(got.items) - 1)}) :
          /\ got' = [got EXCEPT !.items = items, !.state = "changed"]
          /\ history' = IF got.shared THEN items ELSE history
    /\ UNCHANGED <<max_memory_size, memory_file, clock, loaded, added, cleared, disk,
                   mem_call>>
    /\ UNCHANGED notMem

NextMem == MemAdd \/ MemClear \/ DiskChange

\* a caller that reads the history and changes the list it was given
NextMemCopy == MemAdd \/ MemClear \/ MemGet \/ MemChange

(***************************************************************************)
(* SpeechListener (modul_stt.py)                                           *)
(***************************************************************************)
\* the None sentinel stop_listening puts on the queue
NoneFrame == [n |-> 0, rms |-> 0, speech |-> FALSE]
RmsLevels == {STT_MIN_VOLUME - 1, STT_MIN_VOLUME, STT_MIN_VOLUME + 1}

InitSTT ==
    /\ is_listening = FALSE
    /\ is_speaking = FALSE
    /\ voiced_frames_buffer = <<>>
    /\ silent_frames_count = 0
    /\ audio_queue = <<>>
    /\ stream_active = FALSE
    /\ pc = [t \in Threads |-> IF t = Caller THEN "idle" ELSE "unborn"]
    /\ frame = [t \in Threads |-> NoneFrame]
    /\ recording = [t \in Threads |-> <<>>]
    /\ site = [t \in Threads |-> "none"]
    /\ sessions = 0
    /\ captured = 0
    /\ handed = <<>>
    /\ boundary = [frames |-> <<>>, emit |-> FALSE]
    /\ stop_seen = <<>>
    /\ quiet = 0

\* _audio_callback: a frame is queued only when its RMS is above the floor
AudioCallback ==
    /\ stream_active
    /\ captured < MaxFrames
    /\ Len(audio_queue) < MaxQueue
    /\ \E rms \in RmsLevels, sp \in BOOLEAN :
          IF rms > STT_MIN_VOLUME
            THEN /\ captured' = captured + 1
                 /\ audio_queue' = Append(audio_queue,
                                          [n |-> captured + 1, rms |-> rms, speech |-> sp])
                 /\ quiet' = 0
            ELSE /\ quiet < MaxQuiet
                 /\ quiet' = quiet + 1
                 /\ UNCHANGED <<captured, audio_queue>>
    /\ UNCHANGED notSTT
    /\ UNCHANGED <<is_listening, is_speaking, voiced_frames_buffer, silent_frames_count,
                   stream_active, pc, frame, recording, site, sessions, handed,
                   boundary, stop_seen>>

\* start_listening, on the caller's thread
start_listening ==
    /\ pc[Caller] = "idle"
    /\ ~is_listening
    /\ sessions < MaxSessions
    /\ is_listening' = TRUE
    /\ voiced_frames_buffer' = <<>>
    /\ silent_frames_count' = 0
    /\ is_speaking' = FALSE
    /\ stream_active' = TRUE
    /\ sessions' = sessions + 1
    /\ pc' = [pc EXCEPT ![sessions + 1] = "while"]
    /\ quiet' = 0
    /\ UNCHANGED notSTT
    /\ UNCHANGED <<audio_queue, frame, recording, site, captured, handed, boundary,
                   stop_seen>>

\* stop_listening up to the test of the buffer
stop_listening ==
    /\ pc[Caller] = "idle"
    /\ is_listening
    /\ is_listening' = FALSE
    /\ stream_active' = FALSE
    /\ audio_queue' = Append(audio_queue, NoneFrame)
    /\ pc' = [pc EXCEPT ![Caller] = "stop_test"]
    /\ UNCHANGED notSTT
    /\ UNCHANGED quiet
    /\ UNCHANGED <<is_speaking, voiced_frames_buffer, silent_frames_count, frame,
                   recording, site, sessions, captured, handed, boundary, stop_seen>>

\* if self.voiced_frames_buffer: self._process_and_transcribe_buffer()
stop_test ==
    /\ pc[Caller] = "stop_test"
    /\ stop_seen' = voiced_frames_buffer
    /\ IF voiced_frames_buffer # <<>>
         THEN /\ pc' = [pc EXCEPT ![Caller] = "ptb_join"]
              /\ site' = [site EXCEPT ![Caller] = "stop"]
         ELSE /\ pc' = [pc EXCEPT ![Caller] = "idle"]
              /\ UNCHANGED site
    /\ UNCHANGED notSTT
    /\ UNCHANGED quiet
    /\ UNCHANGED <<is_listening, is_speaking, voiced_frames_buffer, silent_frames_count,
                   audio_queue, stream_active, frame, recording, sessions, captured,
                   handed, boundary>>

\* where a thread continues when _process_and_transcribe_buffer returns
AfterPTB(t) == IF t = Caller THEN "idle" ELSE "after_ptb"

\* _process_and_transcribe_buffer: the join and the length test
ptb_join(t) ==
    /\ pc[t] = "ptb_join"
    /\ recording' = [recording EXCEPT ![t] = voiced_frames_buffer]
    /\ IF Len(voiced_frames_buffer) * FrameBytes < MIN_RECORDING_BYTES
         THEN pc' = [pc EXCEPT ![t] = AfterPTB(t)]
         ELSE pc' = [pc EXCEPT ![t] = "ptb_transcribe"]
    /\ UNCHANGED notSTT
    /\ UNCHANGED quiet
    /\ UNCHANGED <<is_listening, is_speaking, voiced_frames_buffer, silent_frames_count,
                   audio_queue, stream_active, frame, site, sessions, captured, handed,
                   boundary, stop_seen>>

\* wav.write and self._transcribe_audio
ptb_transcribe(t) ==
    /\ pc[t] = "ptb_transcribe"
    /\ handed' = Append(handed, [frames |-> recording[t], by |-> t, site |-> site[t]])
    /\ pc' = [pc EXCEPT ![t] = "ptb_clear"]
    /\ UNCHANGED notSTT
    /\ UNCHANGED quiet
    /\ UNCHANGED <<is_listening, is_speaking, voiced_frames_buffer, silent_frames_count,
                   audio_queue, stream_active, frame, recording, site, sessions,
                   captured, boundary, stop_seen>>

\* self.voiced_frames_buffer.clear()
ptb_clear(t) ==
    /\ pc[t] = "ptb_clear"
    /\ voiced_frames_buffer' = <<>>
    /\ pc' = [pc EXCEPT ![t] = AfterPTB(t)]
    /\ UNCHANGED notSTT
    /\ UNCHANGED quiet
    /\ UNCHANGED <<is_listening, is_speaking, silent_frames_count, audio_queue,
                   stream_active, frame, recording, site, sessions, captured, handed,
                   boundary, stop_seen>>

\* _process_vad: while self.is_listening
vad_while(t) ==
    /\ t \in Workers
    /\ pc[t] = "while"
    /\ pc' = [pc EXCEPT ![t] = IF is_listening THEN "get" ELSE "done"]
    /\ UNCHANGED notSTT
    /\ UNCHANGED quiet
    /\ UNCHANGED <<is_listening, is_speaking, voiced_frames_buffer, silent_frames_count,
                   audio_queue, stream_active, frame, recording, site, sessions,
                   captured, handed, boundary, stop_seen>>

\* frame = self.audio_queue.get(timeout=1.0); break on None or when stopped
vad_get(t) ==
    /\ t \in Workers
    /\ pc[t] = "get"
    /\ audio_queue # <<>>
    /\ audio_queue' = Tail(audio_queue)
    /\ frame' = [frame EXCEPT ![t] = Head(audio_queue)]
    /\ pc' = [pc EXCEPT ![t] = IF Head(audio_queue) = NoneFrame \/ ~is_listening
                                 THEN "done" ELSE "frame"]
    /\ UNCHANGED notSTT
    /\ UNCHANGED quiet
    /\ UNCHANGED <<is_listening, is_speaking, voiced_frames_buffer, silent_frames_count,
                   stream_active, recording, site, sessions, captured, handed,
                   boundary, stop_seen>>

\* except queue.Empty: continue
vad_timeout(t) ==
    /\ t \in Workers
    /\ pc[t] = "get"
    /\ audio_queue = <<>>
    /\ pc' = [pc EXCEPT ![t] = "while"]
    /\ UNCHANGED notSTT
    /\ UNCHANGED quiet
    /\ UNCHANGED <<is_listening, is_speaking, voiced_frames_buffer, silent_frames_count,
                   audio_queue, stream_active, frame, recording, site, sessions,
                   captured, handed, boundary, stop_seen>>

\* a silence run that ends the utterance one frame earlier
SilenceEndsAtThreshold(count) == count >= silence_threshold

\* if self.silent_frames_count > silence_threshold
SilenceEnds(count) == count > silence_threshold

\* the body of the loop for one frame, up to a call of
\* _process_and_transcribe_buffer
vad_frame(t) ==
    /\ t \in Workers
    /\ pc[t] = "frame"
    /\ LET f == frame[t]
           buf == Append(voiced_frames_buffer, f)
       IN  IF f.rms < STT_MIN_VOLUME
             THEN \* continue
                  /\ pc' = [pc EXCEPT ![t] = "while"]
                  /\ UNCHANGED <<is_speaking, voiced_frames_buffer, silent_frames_count,
                                 site, boundary>>
             ELSE IF f.speech
             THEN /\ voiced_frames_buffer' = buf
                  /\ silent_frames_count' = 0
                  /\ UNCHANGED boundary
                  /\ IF Len(buf) > max_voiced_frames
                       THEN /\ is_speaking' = TRUE
                            /\ pc' = [pc EXCEPT ![t] = "ptb_join"]
                            /\ site' = [site EXCEPT ![t] = "max"]
                       ELSE /\ is_speaking' = TRUE
                            /\ pc' = [pc EXCEPT ![t] = "while"]
                            /\ UNCHANGED site
             ELSE IF is_speaking
             THEN IF SilenceEnds(silent_frames_count + 1)
                    THEN /\ boundary' = [frames |-> buf,
                                         emit |-> Len(buf) > min_voiced_frames]
                         /\ IF Len(buf) > min_voiced_frames
                              THEN /\ voiced_frames_buffer' = buf
                                   /\ silent_frames_count' = silent_frames_count + 1
                                   /\ pc' = [pc EXCEPT ![t] = "ptb_join"]
                                   /\ site' = [site EXCEPT ![t] = "silence"]
                                   /\ UNCHANGED is_speaking
                              ELSE \* Audio too short, ignoring
                                   /\ voiced_frames_buffer' = <<>>
                                   /\ silent_frames_count' = 0
                                   /\ is_speaking' = FALSE
                                   /\ pc' = [pc EXCEPT ![t] = "while"]
                                   /\ UNCHANGED site
                    ELSE /\ voiced_frames_buffer' = buf
                         /\ silent_frames_count' = silent_frames_count + 1
                         /\ pc' = [pc EXCEPT ![t] = "while"]
                         /\ UNCHANGED <<is_speaking, site, boundary>>
             ELSE \* a non-speech frame while not speaking is skipped
                  /\ pc' = [pc EXCEPT ![t] = "while"]
                  /\ UNCHANGED <<is_speaking, voiced_frames_buffer, silent_frames_count,
                                 site, boundary>>
    /\ UNCHANGED notSTT
    /\ UNCHANGED quiet
    /\ UNCHANGED <<is_listening, audio_queue, stream_active, frame, recording, sessions,
                   captured, handed, stop_seen>>

\* after _process_and_transcribe_buffer in _process_vad: is_speaking = False,
\* buffer.clear(), and on the silence path silent_frames_count = 0
vad_after_ptb(t) ==
    /\ t \in Workers
    /\ pc[t] = "after_ptb"
    /\ is_speaking' = FALSE
    /\ voiced_frames_buffer' = <<>>
    /\ silent_frames_count' = IF site[t] = "silence" THEN 0 ELSE silent_frames_count
    /\ pc' = [pc EXCEPT ![t] = "while"]
    /\ UNCHANGED notSTT
    /\ UNCHANGED quiet
    /\ UNCHANGED <<is_listening, audio_queue, stream_active, frame, recording, site,
                   sessions, captured, handed, boundary, stop_seen>>

NextSTT ==
    \/ AudioCallback
    \/ start_listening
    \/ stop_listening
    \/ stop_test
    \/ \E t \in Threads : ptb_join(t)
    \/ \E t \in Threads : ptb_transcribe(t)
    \/ \E t \in Threads : ptb_clear(t)
    \/ \E t \in Workers : vad_while(t)
    \/ \E t \in Workers : vad_get(t)
    \/ \E t \in Workers : vad_timeout(t)
    \/ \E t \in Workers : vad_frame(t)
    \/ \E t \in Workers : vad_after_ptb(t)

(***************************************************************************)
(* get_intent and execute_command_directly (modul_ai.py), run_shortcut and *)
(* _is_command_safe (modul_helper.py).  Text that the code searches,       *)
(* splits or encodes is a sequence of characters.                          *)
(***************************************************************************)
UpperLetters == <<"A", "B", "C", "D", "E", "F", "G", "H", "I", "J", "K", "L", "M", "N", "O", "P", "Q", "R", "S", "T", "U", "V", "W", "X", "Y", "Z">>
LowerLetters == <<"a", "b", "c", "d", "e", "f", "g", "h", "i", "j", "k", "l", "m", "n", "o", "p", "q", "r", "s", "t", "u", "v", "w", "x", "y", "z">>

\* str.lower
Lower(s) ==
    [i \in DOMAIN s |->
        IF \E n \in DOMAIN UpperLetters : UpperLetters[n] = s[i]
        THEN LowerLetters[CHOOSE n \in DOMAIN UpperLetters : UpperLetters[n] = s[i]]
        ELSE s[i]]

\* sub in s
Contains(s, sub) ==
    \E i \in 0..(Len(s) - Len(sub)) : SubSeq(s, i + 1, i + Len(sub)) = sub

RECURSIVE Quote(_)
\* urllib.parse.quote(s): letters, digits and _.-~/ stay as they are, any
\* other character of the texts of the model becomes its %XX
Quote(s) ==
    IF s = <<>> THEN <<>>
    ELSE LET c == Head(s)
             kept == \/ \E n \in DOMAIN UpperLetters : c \in {UpperLetters[n], LowerLetters[n]}
                     \/ c \in {"0", "1", "2", "3", "4", "5", "6", "7", "8", "9"}
                     \/ c \in {"_", ".", "-", "~", "/"}
             code == CASE c = " " -> <<"%", "2", "0">>
                       [] c = "'" -> <<"%", "2", "7">>
                       [] c = ":" -> <<"%", "3", "A">>
                       [] c = ";" -> <<"%", "3", "B">>
                       [] c = "?" -> <<"%", "3", "F">>
                       [] c = "=" -> <<"%", "3", "D">>
                       [] c = "&" -> <<"%", "2", "6">>
                       [] c = "|" -> <<"%", "7", "C">>
                       [] c = "(" -> <<"%", "2", "8">>
                       [] c = ")" -> <<"%", "2", "9">>
                       [] c = "{" -> <<"%", "7", "B">>
                       [] c = "}" -> <<"%", "7", "D">>
         IN  (IF kept THEN <<c>> ELSE code) \o Quote(Tail(s))

RECURSIVE Words(_, _)
\* str.split(), and shlex.split of a text without quotes or backslashes: the
\* words of s after the word cur that is being read
Words(s, cur) ==
    IF s = <<>> THEN (IF cur = <<>> THEN <<>> ELSE <<cur>>)
    ELSE IF Head(s) \in {" ", "\n", "\t"}
         THEN (IF cur = <<>> THEN <<>> ELSE <<cur>>) \o Words(Tail(s), <<>>)
         ELSE Words(Tail(s), Append(cur, Head(s)))

RECURSIVE Join(_)
\* ' '.join(words)
Join(words) ==
    IF words = <<>> THEN <<>>
    ELSE IF Len(words) = 1 THEN words[1]
    ELSE words[1] \o <<" ">> \o Join(Tail(words))

\* Config.SECURITY_COMMAND_BLACKLIST
SECURITY_COMMAND_BLACKLIST ==
    {<<"r", "m", " ", "-", "r", "f">>,
     <<"f", "o", "r", "m", "a", "t">>,
     <<"s", "h", "u", "t", "d", "o", "w", "n">>,
     <<":", "(", ")", "{", ":", "|", ":", "&", "}", ";">>}

SAFE_COMMANDS ==
    {<<"x", "d", "g", "-", "o", "p", "e", "n">>, <<"f", "i", "r", "e", "f", "o", "x">>,
     <<"g", "o", "o", "g", "l", "e", "-", "c", "h", "r", "o", "m", "e">>,
     <<"c", "h", "r", "o", "m", "i", "u", "m">>, <<"c", "o", "d", "e">>,
     <<"s", "u", "b", "l">>, <<"g", "e", "d", "i", "t">>, <<"n", "a", "n", "o">>,
     <<"v", "i", "m">>, <<"e", "m", "a", "c", "s">>}

\* the patterns are searched as they are written, none as a regular expression
DANGEROUS_PATTERNS ==
    {<<"r", "m", " ", "-", "r", "f">>,
     <<"f", "o", "r", "m", "a", "t">>,
     <<"s", "h", "u", "t", "d", "o", "w", "n">>,
     <<":", "(", ")", "{", ":", "|", ":", "&", "}", ";">>,
     <<"s", "u", "d", "o">>, <<"s", "u">>,
     <<"c", "h", "m", "o", "d", " ", "7", "7", "7">>,
     <<"c", "h", "o", "w", "n", " ", "r", "o", "o", "t">>,
     <<"m", "k", "f", "s">>, <<"d", "d", " ", "i", "f", "=">>,
     <<"w", "g", "e", "t", " ", ".", "*", " ", "-", "O", " ", "/">>,
     <<"c", "u", "r", "l", " ", ".", "*", " ", "|", " ", "s", "h">>,
     <<"c", "a", "t", " ", "/", "e", "t", "c", "/", "p", "a", "s", "s", "w", "d">>,
     <<"c", "a", "t", " ", "/", "e", "t", "c", "/", "s", "h", "a", "d", "o", "w">>}

\* _is_command_safe(command_list): a known first word is allowed before any
\* pattern is looked for
is_command_safe(command_list) ==
    IF command_list = <<>> THEN FALSE
    ELSE IF command_list[1] \in SAFE_COMMANDS THEN TRUE
    ELSE ~ \E pattern \in DANGEROUS_PATTERNS :
              Contains(Lower(Join(command_list)), pattern)

\* A JSON value that is not an object: its type ("str", "num", "list", "null",
\* and "dict" for the mapping given as params), its text when it is a string,
\* and the keys of the mapping, every one of which maps to the string v.
Val(t, v, k) == [t |-> t, v |-> v, k |-> k]
Str(s) == Val("str", s, {})
\* what dict.get gives for a key that is not there
Absent == Val("absent", <<>>, {})

\* bool(x)
Truthy(x) ==
    CASE x.t = "str" -> x.v # <<>>
      [] x.t = "dict" -> x.k # {}
      [] x.t \in {"num", "list"} -> TRUE
      [] OTHER -> FALSE

\* x == s for a string literal s
Is(x, s) == x.t = "str" /\ x.v = s

\* the keys the code looks up in an object, none of them there
NoFields ==
    [n \in {"action", "url", "query", "key", "params", "command"} |-> Absent]

CHAT == <<"c", "h", "a", "t">>
OPEN_URL == <<"o", "p", "e", "n", "_", "u", "r", "l">>
SEARCH_GOOGLE == <<"s", "e", "a", "r", "c", "h", "_", "g", "o", "o", "g", "l", "e">>
OPEN_SHORTCUT == <<"o", "p", "e", "n", "_", "s", "h", "o", "r", "t", "c", "u", "t">>

\* The text of the model's answer after strip() is given by what it starts
\* with (pre), what it ends with (post) and what lies between (body): the
\* text of a JSON value (json TRUE; an object when value.t = "obj", else a
\* list, string, number or null) or anything else.  The empty text:
EmptyText ==
    [pre |-> "", post |-> "",
     body |-> [json |-> FALSE, value |-> [t |-> "null", f |-> NoFields]]]

\* json.loads(json_str) after the removal of the fences: three backquotes and
\* json before the text, three backquotes after it
json_loads(text) ==
    LET fenced == text.pre = "fence_json" /\ text.post = "fence"
        bare == text.pre = "" /\ text.post = ""
    IN  IF (fenced \/ bare) /\ text.body.json
        THEN [ok |-> TRUE, value |-> text.body.value]
        ELSE [ok |-> FALSE, value |-> EmptyText.body.value]

\* what a call returns; raised names the exception that leaves it instead
Returned(value) == [raised |-> "none", value |-> value]

ChatIntent == [NoFields EXCEPT !.action = Str(CHAT)]

\* get_intent, given the outcome of requests.post and the answer's text
get_intent(reply) ==
    IF reply.status \in {"connection", "timeout", "http"}
    THEN Returned(ChatIntent)
    ELSE LET full_response_text == IF reply.has_response THEN reply.text ELSE EmptyText
             loaded_json == json_loads(full_response_text)
             parsed_response == loaded_json.value
             f == parsed_response.f
         IN  IF ~loaded_json.ok THEN Returned(ChatIntent)
             ELSE IF parsed_response.t # "obj"
                  THEN [raised |-> "AttributeError", value |-> NoFields]
             ELSE IF Is(f.action, CHAT) THEN Returned(ChatIntent)
             ELSE IF Is(f.action, OPEN_URL) /\ f.url # Absent
                  THEN Returned([NoFields EXCEPT !.action = Str(OPEN_URL), !.url = f.url])
             ELSE IF Is(f.action, SEARCH_GOOGLE) /\ f.query # Absent
                  THEN Returned([NoFields EXCEPT !.action = Str(SEARCH_GOOGLE),
                                                 !.query = f.query])
             ELSE IF Is(f.action, OPEN_SHORTCUT) /\ f.key # Absent
                  THEN Returned([NoFields EXCEPT
                                   !.action = Str(OPEN_SHORTCUT),
                                   !.key = f.key,
                                   !.params = IF f.params = Absent THEN Val("dict", <<>>, {})
                                                                   ELSE f.params])
             ELSE Returned(ChatIntent)

\* The table of personal shortcuts: a command of a known program, one with a
\* placeholder, one that a pattern forbids, and one of a known program that
\* holds a forbidden pattern.  No template holds a quote or a backslash.
PERSONAL_SHORTCUTS ==
    [key \in {<<"s", "i", "t", "e">>, <<"f", "i", "n", "d">>,
              <<"w", "i", "p", "e">>, <<"e", "d", "i", "t">>} |->
        CASE key = <<"s", "i", "t", "e">> -> <<"f", "i", "r", "e", "f", "o", "x", " ", "x", ".", "i", "o">>
          [] key = <<"f", "i", "n", "d">> -> <<"f", "i", "r", "e", "f", "o", "x", " ", "x", ".", "i", "o", "?", "q", "=", "{", "q", "}">>
          [] key = <<"w", "i", "p", "e">> -> <<"r", "m", " ", "-", "r", "f", " ", "/", "x">>
          [] key = <<"e", "d", "i", "t">> -> <<"x", "d", "g", "-", "o", "p", "e", "n", " ", "r", "m", " ", "-", "r", "f">>]

RECURSIVE Format(_, _)
\* cmd_template.format(**encoded_kwargs), the values quoted: KeyError (ok
\* FALSE) when a placeholder names no keyword
Format(template, kwargs) ==
    IF template = <<>> THEN [ok |-> TRUE, s |-> <<>>]
    ELSE IF Head(template) = "{"
    THEN LET close == CHOOSE i \in 2..Len(template) :
                         /\ template[i] = "}"
                         /\ \A j \in 2..(i - 1) : template[j] # "}"
             name == SubSeq(template, 2, close - 1)
             rest == Format(SubSeq(template, close + 1, Len(template)), kwargs)
         IN  IF name \in kwargs.k
             THEN [ok |-> rest.ok, s |-> Quote(kwargs.v) \o rest.s]
             ELSE [ok |-> FALSE, s |-> <<>>]
    ELSE LET rest == Format(Tail(template), kwargs)
         IN  [ok |-> rest.ok, s |-> <<Head(template)>> \o rest.s]

\* the result of a call: the exception raised and its message, the processes
\* started, the string returned
Ran(raised, message, launched, returned) ==
    [raised |-> raised, message |-> message, launched |-> launched,
     returned |-> returned]

\* PermissionError(f"Command '{cmd}' is not allowed for security reasons."),
\* a message being the pieces of its text
SecurityMessage == <<"Command '", "{cmd}", "' is ", "not allowed for security reasons", ".">>

\* an exception raised anew with a text of its own
ExceptionMessageOwn(e) == <<"An unexpected error occurred during shortcut execution">>

\* raise Exception(f"An unexpected error occurred during shortcut execution: {e}")
ExceptionMessage(e) == <<"An unexpected error occurred during shortcut execution: ">> \o e

\* run_shortcut(command_key, **kwargs): the exception it raises, the process
\* it started (its command string and its argument list) and the string it
\* returns; popen is what subprocess.Popen does: the process starts ("ok"),
\* the program is not found, or the system refuses another process
run_shortcut(command_key, kwargs, popen) ==
    IF command_key.t \in {"list", "dict"}
    THEN Ran("TypeError", <<"unhashable type">>, <<>>, <<>>)
    ELSE IF ~(command_key.t = "str" /\ command_key.v \in DOMAIN PERSONAL_SHORTCUTS)
    THEN Ran("ValueError", <<"No shortcut found for key: ", "{command_key}">>, <<>>, <<>>)
    ELSE LET cmd_template == PERSONAL_SHORTCUTS[command_key.v]
             formatted == Format(cmd_template, kwargs)
             cmd == formatted.s
             cmd_list == Words(cmd, <<>>)
         IN  IF ~formatted.ok THEN Ran("KeyError", <<"{name}">>, <<>>, <<>>)
             ELSE IF ~is_command_safe(cmd_list)
                  THEN Ran("Exception", ExceptionMessage(SecurityMessage), <<>>, <<>>)
             ELSE CASE popen = "ok" ->
                         Ran("none", <<>>,
                             <<[shell |-> FALSE, cmd |-> cmd, argv |-> cmd_list]>>,
                             <<cmd>>)
                    [] popen = "FileNotFoundError" ->
                         Ran("FileNotFoundError",
                             <<"Command '", "{cmd.split()[0]}", "' not found.">>, <<>>, <<>>)
                    [] OTHER -> Ran("Exception", ExceptionMessage(<<"{e}">>), <<>>, <<>>)

\* calls of run_shortcut made on its own in one behaviour
MaxShortcuts == 2

\* the keys and the keyword arguments run_shortcut is called with on its own
ShortcutKeys == DOMAIN PERSONAL_SHORTCUTS \cup {<<"n", "o", "n", "e">>, <<>>}
ShortcutKwargs ==
    {Val("dict", <<>>, {}), Val("dict", <<"a", " ", "b">>, {<<"q">>}),
     Val("dict", <<"r", "m", " ", "-", "r", "f">>, {<<"q">>}),
     Val("dict", <<"a">>, {<<"z">>})}

\* run_shortcut(command_key, **kwargs), called as the tests call it
call_run_shortcut ==
    /\ Len(shortcut_log) < MaxShortcuts
    /\ \E key \in ShortcutKeys, kwargs \in ShortcutKwargs,
          popen \in {"ok", "FileNotFoundError", "OSError"} :
          shortcut_log' = Append(shortcut_log,
                                 [key |-> key, kwargs |-> kwargs, popen |-> popen,
                                  out |-> run_shortcut(Str(key), kwargs, popen)])
    /\ UNCHANGED <<ai_pc, llm_reply, intent, cmd_out>>
    /\ UNCHANGED <<sttVars, memVars, guiVars, ttsVars, trVars, payload>>

\* what iterating execute_command_directly gives: the strings it yields, the
\* processes it started, the exception that leaves it
NoOut == [yields |-> <<>>, launched |-> <<>>, raised |-> "none"]
Yield(message) == [NoOut EXCEPT !.yields = <<message>>]

\* the denylist test and the try block around subprocess.Popen(command_string,
\* shell=True); done is the confirmation of the branch
ShellLaunch(command_string, popen, done) ==
    IF \E cmd \in SECURITY_COMMAND_BLACKLIST : Contains(Lower(command_string), cmd)
    THEN Yield("restricted")
    ELSE CASE popen = "ok" ->
                [NoOut EXCEPT !.yields = <<done>>,
                              !.launched = <<[shell |-> TRUE, cmd |-> command_string,
                                              argv |-> <<>>]>>]
           [] popen = "FileNotFoundError" ->
                IF Words(command_string, <<>>) = <<>>
                THEN [NoOut EXCEPT !.raised = "IndexError"]
                ELSE Yield("not_found")
           [] OTHER -> Yield("unexpected")

\* execute_command_directly(intent_data), iterated to its end
execute_command_directly(intent_data, popen) ==
    LET action == intent_data.action
    IN  IF Is(action, OPEN_URL)
        THEN LET url == intent_data.url
                 web == \E prefix \in {<<"h", "t", "t", "p", ":", "/", "/">>,
                                       <<"h", "t", "t", "p", "s", ":", "/", "/">>,
                                       <<"f", "i", "l", "e", ":", "/", "/", "/">>} :
                           /\ Len(url.v) >= Len(prefix)
                           /\ SubSeq(url.v, 1, Len(prefix)) = prefix
             IN  IF ~Truthy(url) THEN Yield("no_url")
                 ELSE IF url.t # "str" THEN [NoOut EXCEPT !.raised = "AttributeError"]
                 ELSE ShellLaunch(IF web THEN <<"x", "d", "g", "-", "o", "p", "e", "n", " ", "'">> \o url.v \o <<"'">>
                                         ELSE url.v,
                                  popen, "opened")
        ELSE IF Is(action, SEARCH_GOOGLE)
        THEN LET query == intent_data.query
             IN  IF ~Truthy(query) THEN Yield("no_query")
                 ELSE IF query.t # "str" THEN [NoOut EXCEPT !.raised = "TypeError"]
                 ELSE ShellLaunch(<<"x", "d", "g", "-", "o", "p", "e", "n", " ", "'", "h", "t", "t", "p", "s", ":", "/", "/", "w", "w", "w", ".", "g", "o", "o", "g", "l", "e", ".", "c", "o", "m", "/", "s", "e", "a", "r", "c", "h", "?", "q", "=">>
                                      \o Quote(query.v) \o <<"'">>,
                                  popen, "searched")
        ELSE IF Is(action, OPEN_SHORTCUT)
        THEN LET command_key == intent_data.key
                 params == IF intent_data.params = Absent THEN Val("dict", <<>>, {})
                                                          ELSE intent_data.params
             IN  IF ~Truthy(command_key) THEN Yield("no_key")
                 ELSE IF params.t # "dict" THEN Yield("unexpected")
                 ELSE LET ran == run_shortcut(command_key, params, popen)
                      IN  CASE ran.raised = "none" ->
                                 [NoOut EXCEPT !.yields = <<"opened">>,
                                               !.launched = ran.launched]
                            [] ran.raised = "ValueError" -> Yield("no_shortcut")
                            [] ran.raised = "FileNotFoundError" -> Yield("not_found")
                            [] OTHER -> Yield("unexpected")
        ELSE LET command_string == intent_data.command
             IN  IF ~Truthy(command_string) THEN Yield("unknown")
                 ELSE IF command_string.t # "str"
                      THEN [NoOut EXCEPT !.raised = "AttributeError"]
                 ELSE ShellLaunch(command_string.v, popen, "executed")

\* the JSON objects the answer's text can denote: each field absent, of the
\* expected type or of another type
Objects ==
    [action : {Absent, Val("num", <<"7">>, {}), Str(CHAT), Str(OPEN_URL),
               Str(SEARCH_GOOGLE), Str(OPEN_SHORTCUT),
               Str(<<"u", "n", "k", "n", "o", "w", "n", "_", "a", "c", "t", "i", "o", "n">>)},
     url : {Absent, Val("num", <<"7">>, {}), Str(<<>>),
            Str(<<"h", "t", "t", "p", "s", ":", "/", "/", "x">>),
            Str(<<"R", "M", " ", "-", "R", "F", " ", "/", "x">>)},
     query : {Absent, Val("num", <<"7">>, {}), Str(<<"a", " ", "b">>),
              Str(<<"r", "m", " ", "-", "r", "f">>)},
     key : {Absent, Val("list", <<"a">>, {}), Str(<<"s", "i", "t", "e">>),
            Str(<<"f", "i", "n", "d">>), Str(<<"w", "i", "p", "e">>),
            Str(<<"e", "d", "i", "t">>), Str(<<"n", "o", "n", "e">>)},
     params : {Absent, Val("null", <<>>, {}), Str(<<"o", "o", "p", "s">>),
               Val("dict", <<>>, {}), Val("dict", <<"a", " ", "b">>, {<<"q">>})},
     command : {Absent}]

\* the texts of the answer: a JSON value alone, between the fences, with one
\* fence only, between fences that do not name json, and text that is no JSON
AnswerTexts ==
    {[pre |-> pre, post |-> post, body |-> [json |-> TRUE, value |-> value]] :
        pre \in {"", "fence_json", "fence"}, post \in {"", "fence"},
        value \in {[t |-> "obj", f |-> f] : f \in Objects}
                     \cup {[t |-> t, f |-> NoFields] : t \in {"list", "str", "num", "null"}}}
      \cup {EmptyText, [EmptyText EXCEPT !.pre = "fence_json", !.post = "fence"]}

\* no classification call has been made
NoReply == [status |-> "none", has_response |-> FALSE, text |-> EmptyText]

\* the outcomes of the classification call: a connection error, a timeout, an
\* HTTP error status, a body without "response", a body with the answer
Replies ==
    {[NoReply EXCEPT !.status = status] : status \in {"connection", "timeout", "http", "ok"}}
      \cup {[status |-> "ok", has_response |-> TRUE, text |-> text] : text \in AnswerTexts}

\* ask_ollama: intent_data = get_intent(prompt_text), then the choice between
\* the chat and the command
classify ==
    /\ ai_pc = "idle"
    /\ \E reply \in Replies :
          /\ llm_reply' = reply
          /\ intent' = get_intent(reply)
          /\ ai_pc' = IF get_intent(reply).raised # "none" THEN "raised"
                      ELSE IF Is(get_intent(reply).value.action, CHAT) THEN "chat"
                      ELSE "command"
    /\ UNCHANGED <<cmd_out, shortcut_log>>
    /\ UNCHANGED <<sttVars, memVars, guiVars, ttsVars, trVars, payload>>

\* execute_command_directly called with an intent that get_intent did not
\* make: an action it does not know, with or without a command
direct_call ==
    /\ ai_pc = "idle"
    /\ \E action \in {Absent, Str(<<"r", "u", "n">>)},
          command \in {Absent, Val("num", <<"7">>, {}), Str(<<"l", "s">>),
                       Str(<<"R", "m", " ", "-", "R", "f", " ", "/", "x">>)} :
          intent' = Returned([NoFields EXCEPT !.action = action, !.command = command])
    /\ ai_pc' = "command"
    /\ UNCHANGED <<llm_reply, cmd_out, shortcut_log>>
    /\ UNCHANGED <<sttVars, memVars, guiVars, ttsVars, trVars, payload>>

\* yield from execute_command_directly(intent_data)
execute ==
    /\ ai_pc = "command"
    /\ \E popen \in {"ok", "FileNotFoundError", "OSError"} :
          cmd_out' = execute_command_directly(intent.value, popen)
    /\ ai_pc' = "done"
    /\ UNCHANGED <<llm_reply, intent, shortcut_log>>
    /\ UNCHANGED <<sttVars, memVars, guiVars, ttsVars, trVars, payload>>

NextRouter == classify \/ direct_call \/ execute

NextShortcut == call_run_shortcut

(***************************************************************************)
(* ask_ollama_chat up to the payload of the request (modul_ai.py)          *)
(***************************************************************************)
NoPayload == [state |-> "none", text |-> <<>>, history |-> <<>>, prompt |-> <<>>]

\* the role of a message as text
RoleText(role) == IF role = "user" THEN <<"u", "s", "e", "r">>
                  ELSE <<"a", "s", "s", "i", "s", "t", "a", "n", "t">>

\* f"{msg['role']}: {msg['content']}"
MessageLine(msg) == RoleText(msg.role) \o <<":", " ">> \o msg.content

RECURSIVE JoinLines(_)
\* "\n".join(messages)
JoinLines(lines) ==
    IF lines = <<>> THEN <<>>
    ELSE IF Len(lines) = 1 THEN lines[1]
    ELSE lines[1] \o <<"\n">> \o JoinLines(Tail(lines))

\* msg['role'] and msg['content'] of an item that has both
HasRoleAndContent(msg) == {"role", "content"} \subseteq DOMAIN msg

\* "\n".join(messages) + f"\nuser: {prompt_text}"
full_prompt_with_history(list, prompt_text) ==
    JoinLines([i \in DOMAIN list |-> MessageLine(list[i])])
        \o <<"\n">> \o RoleText("user") \o <<":", " ">> \o prompt_text

\* ask_ollama_chat from its first statement to the payload: the user message
\* is added to the memory, the history read back and the prompt built; an
\* item without role or content raises KeyError
chat_prompt ==
    /\ Constructed
    /\ Len(added) < MaxAdds
    /\ \E prompt_text \in Contents :
          /\ add_message("user", prompt_text)
          /\ payload' =
                IF \A i \in DOMAIN history' : HasRoleAndContent(history'[i])
                  THEN [state |-> "built", text |-> prompt_text,
                        history |-> ListCopy(history').items,
                        prompt |-> full_prompt_with_history(ListCopy(history').items,
                                                            prompt_text)]
                  ELSE [state |-> "KeyError", text |-> prompt_text,
                        history |-> ListCopy(history').items, prompt |-> <<>>]
    /\ UNCHANGED <<ai_pc, llm_reply, intent, cmd_out, shortcut_log>>
    /\ UNCHANGED <<sttVars, guiVars, ttsVars, trVars>>

NextPrompt == MemAdd \/ MemClear \/ chat_prompt

\* nothing has been asked of the intent router
InitAI ==
    /\ ai_pc = "idle"
    /\ llm_reply = NoReply
    /\ intent = Returned(NoFields)
    /\ cmd_out = NoOut
    /\ shortcut_log = <<>>
    /\ payload = NoPayload

(***************************************************************************)
(* TTSManager (modul_tts.py)                                               *)
(***************************************************************************)
MaxSpeak == 3       \* speak calls that start a thread in one behaviour

\* the texts speak is called with
SpeakTexts == {<<>>, <<"H", ".">>}

\* TTSManager.__init__: the lock is free and no thread has been started; a
\* manager exists only with its voice model loaded, __init__ raises otherwise
InitTTS ==
    /\ tts_tasks = <<>>
    /\ audio_lock = 0
    /\ callbacks = <<>>
    /\ played = <<>>

\* the components exercised on their own, before anything is asked of them
\* nothing has been recorded, so nothing transcribed
InitTranscriber ==
    /\ tr_log = <<>>
    /\ temp_file = FALSE
    /\ tmp_call = [t \in Threads |-> [pc |-> "idle", path |-> "none", escaped |-> "none"]]
    /\ tmp_calls = 0
    /\ heard = <<>>

LibIdle == InitTTS /\ InitAI /\ InitTranscriber

\* a lock that anybody can take
LockIgnored == TRUE

\* threading.Lock: acquire blocks while another thread holds it
LockFree == audio_lock = 0

\* a stop callback that is only made after a playback that succeeded
StopOnSuccess(ok) == ok

\* finally: on_speaking_stop is called after success and after an exception
StopCalled(ok) == TRUE

\* a lock that its holder keeps
LockKept(t) == t

\* leaving the with block releases the lock
LockReleased(t) == 0

\* TTSManager.speak: a daemon thread for a non-empty text, nothing otherwise;
\* the caller does not touch audio_lock (behind: its holder at the call)
speak ==
    /\ Len(tts_tasks) < MaxSpeak
    /\ \E text \in SpeakTexts :
          tts_tasks' = IF text # <<>>
                         THEN Append(tts_tasks, [pc |-> "new", text |-> text,
                                                 behind |-> audio_lock])
                         ELSE tts_tasks
    /\ UNCHANGED <<audio_lock, callbacks, played>>
    /\ UNCHANGED <<sttVars, memVars, guiVars, aiVars, trVars>>

\* _speak_task: if not self.voice_model (it is loaded), then the with statement
task_begin(t) ==
    /\ t \in DOMAIN tts_tasks
    /\ tts_tasks[t].pc = "new"
    /\ tts_tasks' = [tts_tasks EXCEPT ![t].pc = "waiting"]
    /\ UNCHANGED <<audio_lock, callbacks, played>>
    /\ UNCHANGED <<sttVars, memVars, guiVars, aiVars, trVars>>

\* with self.audio_lock: whichever waiting thread the lock wakes gets it
task_acquire(t) ==
    /\ t \in DOMAIN tts_tasks
    /\ tts_tasks[t].pc = "waiting"
    /\ LockFree
    /\ audio_lock' = t
    /\ tts_tasks' = [tts_tasks EXCEPT ![t].pc = "locked"]
    /\ UNCHANGED <<callbacks, played>>
    /\ UNCHANGED <<sttVars, memVars, guiVars, aiVars, trVars>>

\* self.on_speaking_start()
task_on_start(t) ==
    /\ t \in DOMAIN tts_tasks
    /\ tts_tasks[t].pc = "locked"
    /\ callbacks' = Append(callbacks, [kind |-> "start", task |-> t, lock |-> audio_lock])
    /\ tts_tasks' = [tts_tasks EXCEPT ![t].pc = "try"]
    /\ UNCHANGED <<audio_lock, played>>
    /\ UNCHANGED <<sttVars, memVars, guiVars, aiVars, trVars>>

\* synthesize, sd.play, sd.wait: they return or one of them raises, which is
\* logged; then the finally block
task_play(t) ==
    /\ t \in DOMAIN tts_tasks
    /\ tts_tasks[t].pc = "try"
    /\ \E ok \in BOOLEAN :
          /\ played' = Append(played, [task |-> t, text |-> tts_tasks[t].text, ok |-> ok,
                                       at |-> Len(callbacks), lock |-> audio_lock])
          /\ tts_tasks' = [tts_tasks EXCEPT ![t].pc = IF StopCalled(ok) THEN "finally"
                                                                          ELSE "exit"]
    /\ UNCHANGED <<audio_lock, callbacks>>
    /\ UNCHANGED <<sttVars, memVars, guiVars, aiVars, trVars>>

\* finally: self.on_speaking_stop()
task_on_stop(t) ==
    /\ t \in DOMAIN tts_tasks
    /\ tts_tasks[t].pc = "finally"
    /\ callbacks' = Append(callbacks, [kind |-> "stop", task |-> t, lock |-> audio_lock])
    /\ tts_tasks' = [tts_tasks EXCEPT ![t].pc = "exit"]
    /\ UNCHANGED <<audio_lock, played>>
    /\ UNCHANGED <<sttVars, memVars, guiVars, aiVars, trVars>>

\* the end of the with block
task_release(t) ==
    /\ t \in DOMAIN tts_tasks
    /\ tts_tasks[t].pc = "exit"
    /\ audio_lock' = LockReleased(t)
    /\ tts_tasks' = [tts_tasks EXCEPT ![t].pc = "done"]
    /\ UNCHANGED <<callbacks, played>>
    /\ UNCHANGED <<sttVars, memVars, guiVars, aiVars, trVars>>

\* one step of a _speak_task thread
TaskStep(t) ==
    \/ task_begin(t)
    \/ task_acquire(t)
    \/ task_on_start(t)
    \/ task_play(t)
    \/ task_on_stop(t)
    \/ task_release(t)

NextTTS ==
    \/ speak
    \/ \E t \in 1..MaxSpeak : task_begin(t)
    \/ \E t \in 1..MaxSpeak : task_acquire(t)
    \/ \E t \in 1..MaxSpeak : task_on_start(t)
    \/ \E t \in 1..MaxSpeak : task_play(t)
    \/ \E t \in 1..MaxSpeak : task_on_stop(t)
    \/ \E t \in 1..MaxSpeak : task_release(t)

(***************************************************************************)
(* AssistantApp (gui.py) and the token generators of modul_ai.py           *)
(***************************************************************************)
\* Bounds of the model
MaxTurns == 2       \* ask_ollama generators created in one behaviour
MaxTokens == 1      \* tokens one stream yields before its last line
MaxResults == 1     \* transcription results delivered in one behaviour
MaxAfter == 2       \* callbacks waiting in the Tk event loop
MaxClears == 1      \* Clear Chat clicks in one behaviour
MaxSpeech == 1      \* _speak_task threads followed in one behaviour
MaxInputs == 2      \* text inputs _process_input is given in one behaviour
MaxHeard == 2       \* transcripts the worker thread delivers in one behaviour

\* strings are sequences of characters
Blank == {" ", "\n"}
Terminators == {".", "?", "!"}
Texts == {<<"h", "i">>, <<" ">>}
Tokens == {<<"H", ".", "o">>}
\* f"Error: Failed to connect to Ollama. {err}"
ErrorToken == <<"E", ".", " ", "e">>
\* "Okay, I opened it." and the other strings of execute_command_directly
CommandToken == <<"O", "k", ".">>
\* "**Error:** Command '...' not found. Please ensure it's installed and in
\* your system's PATH."
NotFoundToken == <<"E", ".", " ", "P", ".">>
CommandTokens == {CommandToken, NotFoundToken}
WelcomeText == <<"H", "!", " ", "I", "?">>
Placeholder == <<"s", "o", "r", "r", "y">>
Ellipsis == <<".", ".", ".">>

RECURSIVE LStrip(_)
LStrip(s) == IF s # <<>> /\ Head(s) \in Blank THEN LStrip(Tail(s)) ELSE s
RECURSIVE RStrip(_)
RStrip(s) ==
    IF s # <<>> /\ s[Len(s)] \in Blank THEN RStrip(SubSeq(s, 1, Len(s) - 1)) ELSE s
\* str.strip()
Strip(s) == LStrip(RStrip(s))

\* re.search(r'([.?!])', s).end(), 0 when there is no match
SplitPoint(s) ==
    IF \E i \in DOMAIN s : s[i] \in Terminators
      THEN CHOOSE i \in DOMAIN s :
              /\ s[i] \in Terminators
              /\ \A j \in 1..(i - 1) : s[j] \notin Terminators
      ELSE 0

\* _filter_response, then the placeholder for an empty result; none of the
\* instruction patterns can occur in text made of the tokens above
FilterForMemory(raw) == IF Strip(raw) = <<>> THEN Placeholder ELSE Strip(raw)

NoGen == [pc |-> "none", prompt |-> <<>>, raw |-> <<>>, bubble |-> 0,
          user_adds |-> 0, asst_adds |-> 0, user_ts |-> 0, n_yield |-> 0,
          fail |-> "none", n_at_fail |-> 0, abandoned |-> FALSE,
          pumped |-> <<>>, dispatched |-> <<>>]

Idle == [state |-> "idle", gen |-> 0, bubble |-> 0]
Pumping(g, b) == [state |-> "pumping", gen |-> g, bubble |-> b]

\* one self.after(delay, callback, ...) waiting in the event loop
Callback(kind, delay, text, g, b, disabled) ==
    [kind |-> kind, delay |-> delay, text |-> text, gen |-> g, bubble |-> b,
     disabled |-> disabled]

\* AssistantApp.__init__; warm_up_ollama touches none of this state
InitApp ==
    /\ gui_is_listening = FALSE
    /\ gui_is_speaking = FALSE
    /\ is_processing = FALSE
    /\ current_assistant_bubble = 0
    /\ sentence_buffer = <<>>
    /\ message_count = 0
    /\ last_input_time = 0
    /\ controls_disabled = FALSE
    /\ bubbles = <<>>
    /\ after_queue = <<Callback("welcome", 100, <<>>, 0, 0, FALSE)>>
    /\ ui = Idle
    /\ gens = [g \in 1..MaxTurns |-> NoGen]
    /\ turns = 0
    /\ tts_waiting = 0
    /\ tts_playing = FALSE
    /\ spoken = 0
    /\ closed = FALSE
    /\ input_log = [handled |-> 0, ignored |-> 0]
    /\ results = 0
    /\ clears = 0

\* the event loop runs one callback at a time, and none once the window is
\* destroyed
LoopIdle == ~closed /\ ui.state = "idle"

\* _update_assistant_bubble without its winfo_exists test
BubbleAssumed(b) == b \in DOMAIN bubbles

\* bubble.winfo_exists()
BubbleExists(b) == b \in DOMAIN bubbles /\ bubbles[b].alive

\* a timer may fire unless one scheduled before it is due no later
MayFire(i) ==
    /\ i \in DOMAIN after_queue
    /\ \A j \in 1..(i - 1) : after_queue[j].delay > after_queue[i].delay

Remove(seq, i) == SubSeq(seq, 1, i - 1) \o SubSeq(seq, i + 1, Len(seq))

\* TTSManager.speak: a thread per non-empty text; the model follows the
\* first MaxSpeech of these threads
SpeakAll(texts) ==
    LET said == SelectSeq(texts, LAMBDA t : t # <<>>)
        followed == IF spoken + Len(said) <= MaxSpeech THEN Len(said)
                                                        ELSE MaxSpeech - spoken
    IN  /\ tts_waiting' = tts_waiting + followed
        /\ spoken' = spoken + followed

\* _add_message: a new bubble in the chat frame
NewBubble(text, is_user) == [alive |-> TRUE, user |-> is_user, text |-> text]

\* the fields of the window that a pumped token, the end of the stream or
\* an exception leave alone
pumpRest == <<gui_is_listening, gui_is_speaking, current_assistant_bubble, message_count,
              last_input_time, turns, tts_playing, closed, input_log, results, clears>>

\* a sentence buffer that is never cut
BufferKept(buf) == buf

\* self.sentence_buffer after the search for a terminator
BufferAfter(buf) ==
    IF SplitPoint(buf) > 0 THEN SubSeq(buf, SplitPoint(buf) + 1, Len(buf)) ELSE buf

\* the buffer up to its last terminator, passed to speak in one piece
SentenceToLastTerminator(buf) ==
    IF SplitPoint(buf) > 0
      THEN <<Strip(SubSeq(buf, 1, CHOOSE i \in DOMAIN buf :
                                     /\ buf[i] \in Terminators
                                     /\ \A j \in (i + 1)..Len(buf) :
                                           buf[j] \notin Terminators))>>
      ELSE <<>>

\* the texts passed to speak after a token: the buffer up to its first
\* terminator, stripped, if it holds one
Sentence(buf) ==
    IF SplitPoint(buf) > 0 THEN <<Strip(SubSeq(buf, 1, SplitPoint(buf)))>> ELSE <<>>

\* the texts passed to speak on StopIteration: the stripped buffer unless blank
FinalSentence(buf) == IF Strip(buf) # <<>> THEN <<Strip(buf)>> ELSE <<>>

\* history of a generator: a token it yielded and what was passed to speak
Pumped(rec, tok) ==
    [rec EXCEPT !.pumped = Append(@, tok),
                !.dispatched = @ \o Sentence(sentence_buffer \o tok)]

\* history of a generator: what was passed to speak when it was exhausted
Stopped(rec) == [rec EXCEPT !.dispatched = @ \o FinalSentence(sentence_buffer)]

\* _update_assistant_bubble after next() returned a token
pump_token(g, b, tok) ==
    LET cur == bubbles[b].text
        new_text == (IF cur = Ellipsis THEN <<>> ELSE cur) \o tok
        buf == sentence_buffer \o tok
    IN  /\ bubbles' = [bubbles EXCEPT ![b].text = new_text]
        /\ sentence_buffer' = BufferAfter(buf)
        /\ SpeakAll(Sentence(buf))
        /\ after_queue' = Append(after_queue,
                                 Callback("update_bubble", 10, <<>>, g, b, FALSE))
        /\ ui' = Idle
        /\ UNCHANGED <<controls_disabled, is_processing>>
        /\ UNCHANGED pumpRest

\* _update_assistant_bubble on StopIteration
pump_stop ==
    /\ SpeakAll(FinalSentence(sentence_buffer))
    /\ controls_disabled' = FALSE
    /\ is_processing' = FALSE
    /\ ui' = Idle
    /\ UNCHANGED <<bubbles, sentence_buffer, after_queue>>
    /\ UNCHANGED pumpRest

\* _update_assistant_bubble on any other exception
pump_error(b) ==
    /\ bubbles' = IF BubbleExists(b) THEN [bubbles EXCEPT ![b].text = ErrorToken]
                                      ELSE bubbles
    /\ controls_disabled' = FALSE
    /\ is_processing' = FALSE
    /\ ui' = Idle
    /\ UNCHANGED <<sentence_buffer, after_queue, tts_waiting, spoken>>
    /\ UNCHANGED pumpRest

\* a generator runs only inside next(), called by _update_assistant_bubble
Running(g) == ~closed /\ ui.state = "pumping" /\ ui.gen = g

\* ask_ollama: intent_data = get_intent(prompt_text), which returns chat, a
\* command, or raises (an answer that is JSON but no object)
gen_intent(g) ==
    /\ Running(g)
    /\ gens[g].pc = "new"
    /\ \E action \in {"chat", "command", "raised"} :
          IF action = "raised"
          THEN /\ gens' = [gens EXCEPT ![g].pc = "raised"]
               /\ pump_error(ui.bubble)
          ELSE /\ gens' = [gens EXCEPT ![g].pc = IF action = "chat" THEN "chat" ELSE "cmd"]
               /\ UNCHANGED <<gui_is_listening, gui_is_speaking, is_processing,
                              current_assistant_bubble, sentence_buffer, message_count,
                              last_input_time, controls_disabled, bubbles, after_queue, ui,
                              turns, tts_waiting, tts_playing, spoken, closed, input_log,
                              results, clears>>
    /\ UNCHANGED <<sttVars, memVars, libVars>>

\* execute_command_directly: one confirmation, refusal or error string, or
\* an exception (a url or query that is no string)
gen_command(g) ==
    /\ Running(g)
    /\ gens[g].pc = "cmd"
    /\ \E raised \in BOOLEAN :
          IF raised
          THEN /\ gens' = [gens EXCEPT ![g].pc = "raised"]
               /\ pump_error(ui.bubble)
          ELSE \E string \in CommandTokens :
                  /\ gens' = [gens EXCEPT ![g] = Pumped([@ EXCEPT !.pc = "cmd_yielded",
                                                                  !.n_yield = @ + 1],
                                                        string)]
                  /\ pump_token(g, ui.bubble, string)
    /\ UNCHANGED <<sttVars, memVars, libVars>>

\* ask_ollama_chat: chat_memory.add_message("user", prompt_text)
gen_add_user(g) ==
    /\ Running(g)
    /\ gens[g].pc = "chat"
    /\ add_message("user", gens[g].prompt)
    /\ gens' = [gens EXCEPT ![g].pc = "user_added", ![g].user_adds = @ + 1,
                            ![g].user_ts = clock + 1]
    /\ UNCHANGED <<gui_is_listening, gui_is_speaking, is_processing,
                   current_assistant_bubble, sentence_buffer, message_count,
                   last_input_time, controls_disabled, bubbles, after_queue, ui, turns,
                   tts_waiting, tts_playing, spoken, closed, input_log, results, clears>>
    /\ UNCHANGED <<sttVars, libVars>>

\* a request posted with or without the user message in the memory
RequestAnyTime(g) == gens[g].pc \in {"chat", "user_added"}

\* the request is built and posted once the user message is in the memory
RequestReady(g) == gens[g].pc = "user_added"

\* an except clause that falls through to the end of the stream
ErrorFallsThrough == "yielded_done"

\* where the generator resumes after it yielded the error token: its end
ErrorResume == "error_yielded"

\* the except clause that catches an exception of requests
Clause(why) == IF why \in {"connection", "timeout"} THEN "ConnectionError, Timeout"
                                                     ELSE "RequestException"

\* yield f"Error: Failed to connect to Ollama. {err}"
yield_error(g, why) ==
    /\ gens' = [gens EXCEPT ![g] = Pumped([@ EXCEPT !.pc = ErrorResume,
                                                    !.fail = Clause(why),
                                                    !.n_at_fail = gens[g].n_yield,
                                                    !.n_yield = @ + 1], ErrorToken)]
    /\ pump_token(g, ui.bubble, ErrorToken)
    /\ UNCHANGED memVars

\* the end of the stream: filter, one assistant message, StopIteration
finish(g) ==
    /\ add_message("assistant", FilterForMemory(gens[g].raw))
    /\ gens' = [gens EXCEPT ![g] = Stopped([@ EXCEPT !.pc = "ended",
                                                     !.asst_adds = @ + 1])]
    /\ pump_stop

\* requests.post(..., stream=True, timeout=180) and raise_for_status()
gen_request(g) ==
    /\ Running(g)
    /\ RequestReady(g)
    /\ \E outcome \in {"ok", "connection", "timeout", "http"} :
          IF outcome = "ok"
            THEN /\ gens' = [gens EXCEPT ![g].pc = "streaming"]
                 /\ UNCHANGED <<gui_is_listening, gui_is_speaking, is_processing,
                                current_assistant_bubble, sentence_buffer, message_count,
                                last_input_time, controls_disabled, bubbles, after_queue,
                                ui, turns, tts_waiting, tts_playing, spoken, closed,
                                input_log, results, clears>>
                 /\ UNCHANGED memVars
            ELSE yield_error(g, outcome)
    /\ UNCHANGED <<sttVars, libVars>>

\* one turn of `for line in response.iter_lines()`
gen_line(g) ==
    /\ Running(g)
    /\ gens[g].pc \in {"streaming", "yielded"}
    /\ \E outcome \in {"token", "last", "closed", "connection", "timeout", "chunked",
                      "badjson"} :
          CASE outcome = "token" ->
                 /\ gens[g].n_yield < MaxTokens
                 /\ \E tok \in Tokens :
                       /\ gens' = [gens EXCEPT ![g] =
                                     Pumped([@ EXCEPT !.pc = "yielded",
                                                      !.raw = @ \o tok,
                                                      !.n_yield = @ + 1], tok)]
                       /\ pump_token(g, ui.bubble, tok)
                 /\ UNCHANGED memVars
            [] outcome = "last" ->
                 /\ \E tok \in Tokens \cup {<<>>} :
                       /\ gens' = [gens EXCEPT ![g] =
                                     Pumped([@ EXCEPT !.pc = "yielded_done",
                                                      !.raw = @ \o tok,
                                                      !.n_yield = @ + 1], tok)]
                       /\ pump_token(g, ui.bubble, tok)
                 /\ UNCHANGED memVars
            [] outcome = "closed" -> finish(g)
            [] outcome \in {"connection", "timeout", "chunked"} -> yield_error(g, outcome)
            [] outcome = "badjson" ->
                 /\ gens' = [gens EXCEPT ![g].pc = "raised", ![g].fail = "badjson"]
                 /\ pump_error(ui.bubble)
                 /\ UNCHANGED memVars
    /\ UNCHANGED <<sttVars, libVars>>

\* resumed after the line with done: break, then the end of the stream
gen_done(g) ==
    /\ Running(g)
    /\ gens[g].pc = "yielded_done"
    /\ finish(g)
    /\ UNCHANGED <<sttVars, libVars>>

\* resumed after the error token or the command's string: the generator ends
gen_end(g) ==
    /\ Running(g)
    /\ gens[g].pc \in {"error_yielded", "cmd_yielded"}
    /\ gens' = [gens EXCEPT ![g] = Stopped([@ EXCEPT !.pc = "ended"])]
    /\ pump_stop
    /\ UNCHANGED <<sttVars, memVars, libVars>>

Suspended == {"yielded", "yielded_done", "error_yielded", "cmd_yielded"}

\* the last reference to a suspended generator is dropped and it is closed:
\* GeneratorExit is raised at its yield, leaves the with block and is caught
\* by neither except clause
Dropped(gs, which) ==
    [g \in DOMAIN gs |->
        IF g \in which /\ gs[g].pc \in Suspended
          THEN [gs[g] EXCEPT !.pc = "closed", !.abandoned = TRUE] ELSE gs[g]]

\* _process_input without its is_processing test
NeverBusy == FALSE

\* _process_input: input is ignored while a response cycle is in progress
InputIgnoredWhenBusy == is_processing

\* _process_input(text), then _process_full_cycle up to the first next();
\* queue is what the event loop holds when the handler returns
process_input(text, queue) ==
    /\ after_queue' = queue
    /\ IF Strip(text) = <<>>
         THEN UNCHANGED <<gui_is_listening, is_processing, current_assistant_bubble,
                          sentence_buffer, message_count, controls_disabled, bubbles,
                          ui, gens, turns, input_log>>
         ELSE IF InputIgnoredWhenBusy
         THEN /\ input_log' = [handled |-> input_log.handled + 1,
                               ignored |-> input_log.ignored + 1]
              /\ UNCHANGED <<gui_is_listening, is_processing, current_assistant_bubble,
                             sentence_buffer, message_count, controls_disabled, bubbles,
                             ui, gens, turns>>
         ELSE /\ turns < MaxTurns
              /\ input_log' = [input_log EXCEPT !.handled = @ + 1]
              /\ gui_is_listening' = FALSE
              /\ bubbles' = bubbles \o <<NewBubble(text, TRUE), NewBubble(Ellipsis, FALSE)>>
              /\ message_count' = message_count + 2
              /\ is_processing' = TRUE
              /\ current_assistant_bubble' = Len(bubbles) + 2
              /\ controls_disabled' = TRUE
              /\ sentence_buffer' = <<>>
              /\ gens' = [gens EXCEPT ![turns + 1] =
                            [NoGen EXCEPT !.pc = "new", !.prompt = text,
                                          !.bubble = Len(bubbles) + 2]]
              /\ turns' = turns + 1
              /\ ui' = Pumping(turns + 1, Len(bubbles) + 2)
    /\ UNCHANGED <<gui_is_speaking, last_input_time, tts_waiting, tts_playing, spoken,
                   closed, results, clears>>
    /\ UNCHANGED <<sttVars, memVars, libVars>>

\* handle_text_input: the entry and the send button work while enabled
TextInput ==
    /\ LoopIdle
    /\ ~controls_disabled
    /\ input_log.handled < MaxInputs
    /\ \E text \in Texts : process_input(text, after_queue)

\* self.after(0, self._process_input, text) comes due
RunProcessInput ==
    /\ LoopIdle
    /\ \E i \in DOMAIN after_queue :
          /\ MayFire(i)
          /\ after_queue[i].kind = "process_input"
          /\ process_input(after_queue[i].text, Remove(after_queue, i))

\* self.after(10, self._update_assistant_bubble, text_generator, bubble)
RunUpdateBubble ==
    /\ LoopIdle
    /\ \E i \in DOMAIN after_queue :
          /\ MayFire(i)
          /\ after_queue[i].kind = "update_bubble"
          /\ after_queue' = Remove(after_queue, i)
          /\ IF ~BubbleExists(after_queue[i].bubble)
               THEN /\ controls_disabled' = FALSE
                    /\ is_processing' = FALSE
                    /\ gens' = Dropped(gens, {after_queue[i].gen})
                    /\ UNCHANGED ui
               ELSE /\ ui' = Pumping(after_queue[i].gen, after_queue[i].bubble)
                    /\ UNCHANGED <<controls_disabled, is_processing, gens>>
    /\ UNCHANGED <<gui_is_listening, gui_is_speaking, current_assistant_bubble,
                   sentence_buffer, message_count, last_input_time, bubbles, turns,
                   tts_waiting, tts_playing, spoken, closed, input_log, results, clears>>
    /\ UNCHANGED <<sttVars, memVars, libVars>>

\* self.after(0, lambda: self._toggle_buttons(disabled=...))
RunToggleButtons ==
    /\ LoopIdle
    /\ \E i \in DOMAIN after_queue :
          /\ MayFire(i)
          /\ after_queue[i].kind = "toggle_buttons"
          /\ after_queue' = Remove(after_queue, i)
          /\ controls_disabled' = after_queue[i].disabled
    /\ UNCHANGED <<gui_is_listening, gui_is_speaking, is_processing,
                   current_assistant_bubble, sentence_buffer, message_count,
                   last_input_time, bubbles, ui, gens, turns, tts_waiting, tts_playing,
                   spoken, closed, input_log, results, clears>>
    /\ UNCHANGED <<sttVars, memVars, libVars>>

\* self.after(100, self._add_welcome_message)
RunWelcome ==
    /\ LoopIdle
    /\ \E i \in DOMAIN after_queue :
          /\ MayFire(i)
          /\ after_queue[i].kind = "welcome"
          /\ after_queue' = Remove(after_queue, i)
    /\ bubbles' = Append(bubbles, NewBubble(WelcomeText, FALSE))
    /\ message_count' = message_count + 1
    /\ SpeakAll(<<WelcomeText>>)
    /\ UNCHANGED <<gui_is_listening, gui_is_speaking, is_processing,
                   current_assistant_bubble, sentence_buffer, last_input_time,
                   controls_disabled, ui, gens, turns, tts_playing, closed, input_log,
                   results, clears>>
    /\ UNCHANGED <<sttVars, memVars, libVars>>

\* widget.destroy() on the bubble of a generator that is not exhausted: the
\* cycle is abandoned, the pending callback still holds the generator
Abandon(gs) ==
    [g \in DOMAIN gs |->
        IF gs[g].pc \in Suspended THEN [gs[g] EXCEPT !.abandoned = TRUE] ELSE gs[g]]

\* _clear_chat_history
ClearChat ==
    /\ LoopIdle
    /\ clears < MaxClears
    /\ clears' = clears + 1
    /\ bubbles' = Append([b \in DOMAIN bubbles |-> [bubbles[b] EXCEPT !.alive = FALSE]],
                         NewBubble(WelcomeText, FALSE))
    /\ message_count' = 1
    /\ current_assistant_bubble' = 0
    /\ clear_memory
    /\ SpeakAll(<<WelcomeText>>)
    /\ gens' = Abandon(gens)
    /\ UNCHANGED <<gui_is_listening, gui_is_speaking, is_processing, sentence_buffer,
                   last_input_time, controls_disabled, after_queue, ui, turns,
                   tts_playing, closed, input_log, results>>
    /\ UNCHANGED <<sttVars, libVars>>

\* the texts of the transcripts, in the order they are accepted
Transcripts == <<(<<"h", "i">>), (<<"y", "o">>), (<<"o", "k">>), (<<"n", "o">>),
                (<<"u", "p">>), (<<"g", "o">>), (<<"a", "h">>), (<<"o", "h">>)>>

\* handle_stt_result: at most one input a second is passed on; heard keeps
\* each call, with whether a response cycle was in progress
handle_stt_result(text, queue) ==
    /\ heard' = Append(heard, [text |-> text, busy |-> is_processing])
    /\ \E elapsed \in BOOLEAN :
          IF last_input_time = 0 \/ elapsed
            THEN /\ last_input_time' = 1
                 /\ after_queue' = Append(queue,
                                          Callback("process_input", 0, text, 0, 0, FALSE))
            ELSE /\ UNCHANGED last_input_time
                 /\ after_queue' = queue

\* toggle_listening; stop_listening may transcribe what is buffered and call
\* handle_stt_result before it returns
toggle_listening ==
    /\ LoopIdle
    /\ ~controls_disabled
    /\ IF is_processing
         THEN UNCHANGED <<gui_is_listening, is_listening, last_input_time, after_queue,
                          results, heard>>
         ELSE IF gui_is_listening
         THEN /\ gui_is_listening' = FALSE
              /\ is_listening' = FALSE
              /\ \/ UNCHANGED <<last_input_time, after_queue, results, heard>>
                 \/ /\ is_listening
                    /\ results < MaxResults
                    /\ results' = results + 1
                    /\ handle_stt_result(Transcripts[Len(heard) + 1], after_queue)
         ELSE /\ gui_is_listening' = TRUE
              /\ is_listening' = TRUE
              /\ UNCHANGED <<last_input_time, after_queue, results, heard>>
    /\ UNCHANGED <<gui_is_speaking, is_processing, current_assistant_bubble,
                   sentence_buffer, message_count, controls_disabled, bubbles, ui, gens,
                   turns, tts_waiting, tts_playing, spoken, closed, input_log, clears>>
    /\ UNCHANGED <<sttRest, memVars, heardRest>>

\* on_transcription_result called by the listener's worker thread
SttResult ==
    /\ ~closed
    /\ is_listening
    /\ results < MaxResults
    /\ Len(after_queue) < MaxAfter
    /\ results' = results + 1
    /\ handle_stt_result(Transcripts[Len(heard) + 1], after_queue)
    /\ UNCHANGED <<gui_is_listening, gui_is_speaking, is_processing,
                   current_assistant_bubble, sentence_buffer, message_count,
                   controls_disabled, bubbles, ui, gens, turns, tts_waiting, tts_playing,
                   spoken, closed, input_log, clears>>
    /\ UNCHANGED <<sttVars, memVars, heardRest>>

\* on_transcription_result called by the listener's worker thread, for one
\* transcript after another
on_transcription_result ==
    /\ ~closed
    /\ is_listening
    /\ Len(heard) < MaxHeard
    /\ Len(after_queue) < MaxAfter
    /\ handle_stt_result(Transcripts[Len(heard) + 1], after_queue)
    /\ UNCHANGED <<gui_is_listening, gui_is_speaking, is_processing,
                   current_assistant_bubble, sentence_buffer, message_count,
                   controls_disabled, bubbles, ui, gens, turns, tts_waiting, tts_playing,
                   spoken, closed, input_log, results, clears>>
    /\ UNCHANGED <<sttVars, memVars, heardRest>>

\* a _speak_task thread gets audio_lock and calls _on_speaking_start
TtsStart ==
    /\ ~closed
    /\ tts_waiting > 0
    /\ ~tts_playing
    /\ Len(after_queue) < MaxAfter
    /\ tts_waiting' = tts_waiting - 1
    /\ tts_playing' = TRUE
    /\ gui_is_speaking' = TRUE
    /\ after_queue' = Append(after_queue, Callback("toggle_buttons", 0, <<>>, 0, 0, TRUE))
    /\ UNCHANGED <<gui_is_listening, is_processing, current_assistant_bubble,
                   sentence_buffer, message_count, last_input_time, controls_disabled,
                   bubbles, ui, gens, turns, spoken, closed, input_log, results, clears>>
    /\ UNCHANGED <<sttVars, memVars, libVars>>

\* the thread calls _on_speaking_stop and releases audio_lock
TtsStop ==
    /\ ~closed
    /\ tts_playing
    /\ Len(after_queue) < MaxAfter
    /\ tts_playing' = FALSE
    /\ gui_is_speaking' = FALSE
    /\ after_queue' = IF ~is_processing
                        THEN Append(after_queue,
                                    Callback("toggle_buttons", 0, <<>>, 0, 0, FALSE))
                        ELSE after_queue
    /\ UNCHANGED <<gui_is_listening, is_processing, current_assistant_bubble,
                   sentence_buffer, message_count, last_input_time, controls_disabled,
                   bubbles, ui, gens, turns, tts_waiting, spoken, closed, input_log,
                   results, clears>>
    /\ UNCHANGED <<sttVars, memVars, libVars>>

\* _on_closing: the listener is stopped and the window destroyed, which
\* deletes the callbacks that wait in the event loop
Close ==
    /\ LoopIdle
    /\ closed' = TRUE
    /\ is_listening' = FALSE
    /\ gens' = Dropped(gens, DOMAIN gens)
    /\ after_queue' = <<>>
    /\ UNCHANGED <<gui_is_listening, gui_is_speaking, is_processing,
                   current_assistant_bubble, sentence_buffer, message_count,
                   last_input_time, controls_disabled, bubbles, ui, turns,
                   tts_waiting, tts_playing, spoken, input_log, results, clears>>
    /\ UNCHANGED <<sttRest, memVars, libVars>>

NextGui ==
    \/ TextInput
    \/ RunProcessInput
    \/ RunUpdateBubble
    \/ RunToggleButtons
    \/ RunWelcome
    \/ ClearChat
    \/ toggle_listening
    \/ SttResult
    \/ TtsStart
    \/ TtsStop
    \/ Close
    \/ \E g \in 1..MaxTurns : gen_intent(g)
    \/ \E g \in 1..MaxTurns : gen_command(g)
    \/ \E g \in 1..MaxTurns : gen_add_user(g)
    \/ \E g \in 1..MaxTurns : gen_request(g)
    \/ \E g \in 1..MaxTurns : gen_line(g)
    \/ \E g \in 1..MaxTurns : gen_done(g)
    \/ \E g \in 1..MaxTurns : gen_end(g)

InitSpecGui == InitSTT /\ MemIdle /\ InitApp /\ LibIdle

SpecGui == InitSpecGui /\ [][NextGui]_vars

\* the way of a transcript from the listener to ask_ollama: the microphone
\* button, the results of the listener, the event loop and the response
\* cycles, without the entry, the clear button and the speech threads
NextRoute ==
    \/ toggle_listening
    \/ on_transcription_result
    \/ RunProcessInput
    \/ RunUpdateBubble
    \/ RunWelcome
    \/ \E g \in 1..MaxTurns : gen_intent(g)
    \/ \E g \in 1..MaxTurns : gen_command(g)
    \/ \E g \in 1..MaxTurns : gen_add_user(g)
    \/ \E g \in 1..MaxTurns : gen_request(g)
    \/ \E g \in 1..MaxTurns : gen_line(g)
    \/ \E g \in 1..MaxTurns : gen_done(g)
    \/ \E g \in 1..MaxTurns : gen_end(g)

InitSpecRoute == InitSTT /\ MemIdle /\ InitApp /\ LibIdle

SpecRoute == InitSpecRoute /\ [][NextRoute]_vars

(***************************************************************************)
(* _update_assistant_bubble pumping a generator of given tokens            *)
(***************************************************************************)
MaxStream == 4      \* tokens of one stream

\* "Hel", "lo.", " How are you", "?", and tokens with two terminators or none
StreamTokens == {<<"H", "e">>, <<"l", ".">>, <<" ", "H", " ", "u">>, <<"?">>,
                 <<".", "a", "!", " ">>, <<" ">>}

\* _process_full_cycle has made the bubble and is about to call next() on a
\* generator that yields tokens of StreamTokens
InitSplit ==
    /\ gui_is_listening = FALSE
    /\ gui_is_speaking = FALSE
    /\ is_processing = TRUE
    /\ current_assistant_bubble = 2
    /\ sentence_buffer = <<>>
    /\ message_count = 2
    /\ last_input_time = 0
    /\ controls_disabled = TRUE
    /\ bubbles = <<NewBubble(<<"h", "i">>, TRUE), NewBubble(Ellipsis, FALSE)>>
    /\ after_queue = <<>>
    /\ ui = Pumping(1, 2)
    /\ gens = [g \in 1..MaxTurns |->
                 IF g = 1 THEN [NoGen EXCEPT !.pc = "tokens", !.prompt = <<"h", "i">>,
                                             !.bubble = 2]
                          ELSE NoGen]
    /\ turns = 1
    /\ tts_waiting = 0
    /\ tts_playing = FALSE
    /\ spoken = 0
    /\ closed = FALSE
    /\ input_log = [handled |-> 1, ignored |-> 0]
    /\ results = 0
    /\ clears = 0

\* next(text_generator) returns a token
stream_token ==
    /\ Running(1)
    /\ gens[1].pc = "tokens"
    /\ Len(gens[1].pumped) < MaxStream
    /\ \E tok \in StreamTokens :
          /\ gens' = [gens EXCEPT ![1] = Pumped([@ EXCEPT !.n_yield = @ + 1], tok)]
          /\ pump_token(1, ui.bubble, tok)
    /\ UNCHANGED <<sttVars, memVars, libVars>>

\* next(text_generator) raises StopIteration
stream_stop ==
    /\ Running(1)
    /\ gens[1].pc = "tokens"
    /\ gens' = [gens EXCEPT ![1] = Stopped([@ EXCEPT !.pc = "ended"])]
    /\ pump_stop
    /\ UNCHANGED <<sttVars, memVars, libVars>>

NextSplit == stream_token \/ stream_stop \/ RunUpdateBubble

InitSpecSplit == InitSTT /\ MemIdle /\ InitSplit /\ LibIdle

SpecSplit == InitSpecSplit /\ [][NextSplit]_vars

(***************************************************************************)
(* SpeechListener._transcribe_audio (modul_stt.py)                         *)
(***************************************************************************)
MaxTranscriptions == 2  \* recordings transcribed in one behaviour

\* common_hallucinations
COMMON_HALLUCINATIONS ==
    {<<"t", "e", "r", "i", "m", "a", " ", "k", "a", "s", "i", "h", " ", "s", "u", "d", "a", "h", " ", "m", "e", "n", "o", "n", "t", "o", "n">>,
     <<"s", "e", "l", "a", "m", "a", "t", " ", "m", "e", "n", "o", "n", "t", "o", "n">>,
     <<"h", "a", "i", " ", "g", "u", "y", "s">>,
     <<"h", "a", "l", "o", " ", "g", "u", "y", "s">>,
     <<"l", "i", "k", "e", " ", "d", "a", "n", " ", "s", "u", "b", "s", "c", "r", "i", "b", "e">>,
     <<"t", "h", "a", "n", "k", " ", "y", "o", "u", " ", "f", "o", "r", " ", "w", "a", "t", "c", "h", "i", "n", "g">>,
     <<"j", "a", "n", "g", "a", "n", " ", "l", "u", "p", "a", " ", "l", "i", "k", "e">>,
     <<"j", "a", "n", "g", "a", "n", " ", "l", "u", "p", "a", " ", "s", "u", "b", "s", "c", "r", "i", "b", "e">>}

\* the texts of the segments the model decodes from a recording
SegmentTexts ==
    {<<>>,
     <<<<" ">>>>,
     <<<<"a">>>>,
     <<<<" ", "a", " ">>>>,
     <<<<"o", "k">>>>,
     <<<<" ", "o">>, <<"k", " ">>>>,
     <<<<" ", "b", "u", "k", "a", " ", "f", "i", "r", "e", "f", "o", "x">>>>,
     <<<<"h", "a", "i", " ", "g", "u", "y">>>>,
     <<<<"h", "a", "i", " ", "g", "u", "y", "s">>>>,
     <<<<" ", "H", "a", "i", " ", "G", "u", "y", "s", "!">>>>,
     <<<<"o", "h", " ", "h", "a", "i">>, <<" ", "g", "u", "y", "s">>>>,
     <<<<"J", "a", "n", "g", "a", "n", " ", "l", "u", "p", "a", " ", "L", "I", "K", "E">>>>,
     <<<<" ", "T", "h", "a", "n", "k", " ", "y", "o", "u">>, <<" ", "f", "o", "r", " ", "w", "a", "t", "c", "h", "i", "n", "g", ".">>>>}

RECURSIVE Joined(_)
\* "".join(segment.text for segment in segments)
Joined(segments) ==
    IF segments = <<>> THEN <<>> ELSE Head(segments) \o Joined(Tail(segments))

\* not text or len(text) < 2
TooShort(text) == text = <<>> \/ Len(text) < 2

\* a phrase found only when the text spells it in lower case
HallucinationExact(text) ==
    \E hallucination \in COMMON_HALLUCINATIONS : Contains(text, hallucination)

\* any(hallucination in text.lower() for hallucination in common_hallucinations)
Hallucination(text) ==
    \E hallucination \in COMMON_HALLUCINATIONS : Contains(Lower(text), hallucination)

\* except Exception as err: whatever the try block raised is logged and goes
\* no further
ExceptException(raised) == "none"

\* wav.write of the recording, then _transcribe_audio(filepath): the model
\* may be missing, transcribe or the reading of its segments may raise, the
\* callback may raise; the entry added to the log tells what the call did.
\* The calls are taken one at a time.
transcribe_audio ==
    /\ Len(tr_log) < MaxTranscriptions
    /\ \E whisper_model \in {"none", "loaded"},
          decoding \in {"ok", "raises"},
          segments \in SegmentTexts,
          callback \in {"returns", "raises"} :
          LET text == Strip(Joined(segments))
              decoded == whisper_model = "loaded" /\ decoding = "ok"
              accepted == decoded /\ ~TooShort(text) /\ ~Hallucination(text)
              raised == IF whisper_model = "none" THEN "none"
                        ELSE IF decoding = "raises" THEN "transcribe"
                        ELSE IF accepted /\ callback = "raises" THEN "callback"
                        ELSE "none"
          IN  /\ tr_log' = Append(tr_log,
                     [decoded |-> decoded,
                      text |-> IF decoded THEN text ELSE <<>>,
                      results |-> IF accepted THEN <<text>> ELSE <<>>,
                      raised |-> raised,
                      escaped |-> ExceptException(raised)])
              /\ temp_file' = (whisper_model = "none")
    /\ UNCHANGED <<sttVars, memVars, guiVars, ttsVars, aiVars, tmp_call, tmp_calls, heard>>

NextTranscribe == transcribe_audio

InitSpecTranscribe == InitSTT /\ MemIdle /\ InitApp /\ LibIdle

SpecTranscribe == InitSpecTranscribe /\ [][NextTranscribe]_vars

(***************************************************************************)
(* The temporary audio file.  _process_and_transcribe_buffer runs on the   *)
(* worker thread and, from stop_listening, on the caller's thread, with no *)
(* lock; every call writes and removes the one Config.TEMP_AUDIO_FILE.     *)
(* The model is loaded by the constructor (_initialize_models), so the     *)
(* calls followed here are past the whisper_model test.                    *)
(***************************************************************************)
\* how a call leaves the try block
TryPaths == {"accepted", "rejected", "transcribe_raises", "callback_raises"}

\* a cleanup written as the last statement of the try block: reached only
\* when nothing returned or raised before it
AfterTryLastStatement(path) == IF path = "accepted" THEN "finally" ELSE "returned"

\* try ... except Exception ... finally: the finally clause runs after a
\* return inside the try block and after the except clause alike
AfterTry(path) == "finally"

\* wav.write(Config.TEMP_AUDIO_FILE, ...): the file is created or overwritten
tmp_write(t) ==
    /\ tmp_call[t].pc = "idle"
    /\ tmp_calls < MaxTranscriptions
    /\ tmp_calls' = tmp_calls + 1
    /\ temp_file' = TRUE
    /\ tmp_call' = [tmp_call EXCEPT ![t] = [pc |-> "written", path |-> "none", escaped |-> "none"]]
    /\ UNCHANGED <<sttVars, memVars, guiVars, ttsVars, aiVars, tr_log, heard>>

\* the try block of _transcribe_audio: transcribe raises when the file is
\* gone, and may raise anyway; the text is rejected or accepted; the callback
\* returns or raises
tmp_try(t) ==
    /\ tmp_call[t].pc = "written"
    /\ \E path \in TryPaths :
          /\ ~temp_file => path = "transcribe_raises"
          /\ tmp_call' = [tmp_call EXCEPT ![t].pc = AfterTry(path), ![t].path = path]
    /\ UNCHANGED <<sttVars, memVars, guiVars, ttsVars, aiVars, tr_log, temp_file, tmp_calls, heard>>

\* finally: if os.path.exists(filepath)
tmp_exists(t) ==
    /\ tmp_call[t].pc = "finally"
    /\ tmp_call' = [tmp_call EXCEPT ![t].pc = IF temp_file THEN "remove" ELSE "returned"]
    /\ UNCHANGED <<sttVars, memVars, guiVars, ttsVars, aiVars, tr_log, temp_file, tmp_calls, heard>>

\* os.remove(filepath): FileNotFoundError when another call removed the file
\* after the test; raised in the finally clause, it leaves the call
tmp_remove(t) ==
    /\ tmp_call[t].pc = "remove"
    /\ temp_file' = FALSE
    /\ tmp_call' = [tmp_call EXCEPT ![t].pc = "returned",
                                    ![t].escaped = IF temp_file THEN "none"
                                                   ELSE "FileNotFoundError"]
    /\ UNCHANGED <<sttVars, memVars, guiVars, ttsVars, aiVars, tr_log, tmp_calls, heard>>

\* back in the caller of _process_and_transcribe_buffer
tmp_return(t) ==
    /\ tmp_call[t].pc = "returned"
    /\ tmp_call' = [tmp_call EXCEPT ![t].pc = "idle"]
    /\ UNCHANGED <<sttVars, memVars, guiVars, ttsVars, aiVars, tr_log, temp_file, tmp_calls, heard>>

NextTempFile ==
    \/ \E t \in Threads : tmp_write(t)
    \/ \E t \in Threads : tmp_try(t)
    \/ \E t \in Threads : tmp_exists(t)
    \/ \E t \in Threads : tmp_remove(t)
    \/ \E t \in Threads : tmp_return(t)

InitSpecTempFile == InitSTT /\ MemIdle /\ InitApp /\ LibIdle

SpecTempFile == InitSpecTempFile /\ [][NextTempFile]_vars

InitSpecTTS == InitSTT /\ MemIdle /\ InitApp /\ LibIdle

SpecTTS == InitSpecTTS /\ [][NextTTS]_vars

\* the scheduler runs every thread that can take a step
FairSpecTTS == SpecTTS /\ \A t \in 1..MaxSpeak : WF_vars(TaskStep(t))

InitSpecRouter == InitSTT /\ MemIdle /\ InitApp /\ LibIdle

SpecRouter == InitSpecRouter /\ [][NextRouter]_vars

InitSpecShortcut == InitSTT /\ MemIdle /\ InitApp /\ LibIdle

SpecShortcut == InitSpecShortcut /\ [][NextShortcut]_vars

InitSpecSTT == InitSTT /\ MemIdle /\ InitApp /\ LibIdle

SpecSTT == InitSpecSTT /\ [][NextSTT]_vars

InitSpecMem == InitMem /\ InitSTT /\ InitApp /\ LibIdle

SpecMem == InitSpecMem /\ [][NextMem]_vars

InitSpecPrompt == InitMem /\ InitSTT /\ InitApp /\ LibIdle

SpecPrompt == InitSpecPrompt /\ [][NextPrompt]_vars

InitSpecMemCopy == InitMem /\ InitSTT /\ InitApp /\ LibIdle

SpecMemCopy == InitSpecMemCopy /\ [][NextMemCopy]_vars

\* every thread's next step is taken eventually: the threads are scheduled
\* fairly, the callers of start_listening and stop_listening are not obliged
\* to call
ThreadStep(t) ==
    \/ ptb_join(t) \/ ptb_transcribe(t) \/ ptb_clear(t)
    \/ vad_while(t) \/ vad_get(t) \/ vad_timeout(t) \/ vad_frame(t) \/ vad_after_ptb(t)
    \/ (t = Caller /\ stop_test)

FairSpecSTT == SpecSTT /\ \A t \in Threads : WF_vars(ThreadStep(t))

(***************************************************************************)
(* Claims about the speech listener                                        *)
(***************************************************************************)
RECURSIVE ClosingSilence(_)
\* the number of non-speech frames that end a buffer
ClosingSilence(buf) ==
    IF buf = <<>> \/ buf[Len(buf)].speech THEN 0
    ELSE 1 + ClosingSilence(SubSeq(buf, 1, Len(buf) - 1))

\* the frames of a buffer before its closing silence run
SpeechRun(buf) == Len(buf) - ClosingSilence(buf)

\* the utterances handed to transcription that hold a frame of buf
HandoffsOf(buf) ==
    {i \in DOMAIN handed :
        \E j \in DOMAIN handed[i].frames, k \in DOMAIN buf : handed[i].frames[j] = buf[k]}

\* C1: at a silence boundary an utterance is handed to transcription iff the
\* speech run before the closing silence run lasted at least
\* min_voiced_frames frames; a shorter run is discarded.
C1_EmitIffRunAtLeastMin ==
    /\ \A i \in DOMAIN handed :
          handed[i].site = "silence" => SpeechRun(handed[i].frames) >= min_voiced_frames
    /\ (boundary.frames # <<>> /\ ~boundary.emit)
          => SpeechRun(boundary.frames) < min_voiced_frames

\* C2: the buffer never holds more than max_voiced_frames + 1 frames, and no
\* utterance handed to transcription holds more than that.
C2_BufferAtMostMaxPlusOne ==
    /\ Len(voiced_frames_buffer) <= max_voiced_frames + 1
    /\ \A i \in DOMAIN handed : Len(handed[i].frames) <= max_voiced_frames + 1

\* C3: once stop_listening, called with a non-empty buffer, has returned,
\* exactly one utterance holding the buffered frames has been handed to
\* transcription: not zero, not two.
C3_StopEmitsExactlyOnce ==
    (pc[Caller] = "idle" /\ stop_seen # <<>>)
        => Cardinality(HandoffsOf(stop_seen)) = 1

\* C4: after stop_listening the stream is stopped and every worker that is
\* running eventually terminates.
C4_StopTerminatesWorker ==
    /\ [](pc[Caller] = "stop_test" => ~stream_active)
    /\ \A t \in Workers :
          (pc[t] \notin {"unborn", "done"} /\ ~is_listening) ~> (pc[t] = "done")

(***************************************************************************)
(* Claims about the chat memory                                            *)
(***************************************************************************)
Min(a, b) == IF a <= b THEN a ELSE b

\* the last n elements of a sequence
LastOf(seq, n) == SubSeq(seq, Len(seq) - n + 1, Len(seq))

\* C5: after k add_message calls on a memory that started empty, the history
\* holds exactly the last min(k, max_memory_size) messages added, in order.
C5_HistoryIsLastMinKN ==
    (loaded = <<>> /\ ~cleared)
        => /\ Len(history) = Min(Len(added), max_memory_size)
           /\ history = LastOf(added, Min(Len(added), max_memory_size))

\* C6: after every mutation (add_message or clear_memory) the history holds
\* at most max_memory_size messages, whatever was loaded at construction.
C6_SizeCapAfterMutation ==
    (added # <<>> \/ cleared) => Len(history) <= max_memory_size

(***************************************************************************)
(* Response cycles (gui.py, modul_ai.py)                                   *)
(***************************************************************************)
\* the generators that can still run
LiveGens == {g \in 1..MaxTurns : gens[g].pc \notin {"none", "ended", "closed", "raised"}}

\* the user bubbles created so far, destroyed ones included
UserBubbles == Len(SelectSeq(bubbles, LAMBDA b : b.user))

\* the add_message calls made after the user message of turn g and before the
\* user message of any later turn
TurnMessages(g) ==
    IF gens[g].user_adds = 0 THEN {}
    ELSE {i \in DOMAIN added :
            /\ added[i].timestamp > gens[g].user_ts
            /\ \A h \in 1..MaxTurns :
                  (gens[h].user_adds > 0 /\ gens[h].user_ts > gens[g].user_ts)
                      => added[i].timestamp < gens[h].user_ts}

\* the request of turn g has been issued
Requested(g) ==
    \/ gens[g].pc \in {"streaming", "yielded", "yielded_done"}
    \/ gens[g].fail # "none"
    \/ gens[g].asst_adds > 0

\* C7: at most one response cycle is in progress at a time, is_processing is
\* true for as long as its generator can run, and while is_processing is true
\* no generator is created, no user bubble is added and the only messages
\* added to the chat memory are those of the running generator
C7_OneCycleAtATime ==
    /\ [](Cardinality(LiveGens) <= 1 /\ (LiveGens # {} => is_processing))
    /\ [][is_processing =>
             /\ turns' = turns
             /\ UserBubbles' = UserBubbles
             /\ added' # added => ui.state = "pumping"]_vars

\* an input has been ignored while a cycle was in progress, and it still is
C7_Witness ==
    /\ is_processing
    /\ input_log.ignored > 0
    /\ Cardinality(LiveGens) = 1

\* C8: in every chat turn the user message is in the chat memory before the
\* request is issued; the assistant message is added at most once, only by a
\* generator that ran to the end of its stream, and exactly once by each of
\* these; while tokens are being yielded the turn has added no assistant
\* message
C8_UserBeforeAssistantAfter ==
    \A g \in 1..MaxTurns :
        /\ Requested(g) =>
              /\ gens[g].user_adds = 1
              /\ gens[g].user_ts \in DOMAIN added
              /\ added[gens[g].user_ts].role = "user"
              /\ added[gens[g].user_ts].content = gens[g].prompt
        /\ gens[g].user_adds <= 1
        /\ Cardinality(TurnMessages(g)) = gens[g].asst_adds
        /\ \A i \in TurnMessages(g) : added[i].role = "assistant"
        /\ gens[g].asst_adds <= 1
        /\ gens[g].asst_adds = 1 <=>
              (gens[g].pc = "ended" /\ gens[g].user_adds = 1 /\ gens[g].fail = "none")
        /\ gens[g].pc \in {"streaming", "yielded", "yielded_done"} =>
              TurnMessages(g) = {}

\* a chat turn streamed tokens, ended, and its assistant message is in the
\* chat memory after its user message
C8_Witness ==
    \E g \in 1..MaxTurns :
        /\ gens[g].pc = "ended"
        /\ gens[g].n_yield >= 2
        /\ gens[g].asst_adds = 1
        /\ Len(history) >= 2
        /\ history[Len(history)].role = "assistant"
        /\ history[Len(history) - 1].role = "user"

\* C9: a turn whose request failed with a connection or timeout error, before
\* any token or after some, has yielded exactly one more token, the error
\* token, can only end, and adds no assistant message
C9_ErrorTokenThenEnd ==
    \A g \in 1..MaxTurns :
        gens[g].fail = "ConnectionError, Timeout" =>
            /\ gens[g].n_yield = gens[g].n_at_fail + 1
            /\ gens[g].pc \in {"error_yielded", "ended", "closed"}
            /\ gens[g].asst_adds = 0
            /\ TurnMessages(g) = {}

\* one turn failed before its first token and another after a token; both
\* have ended
C9_Witness ==
    \E g, h \in 1..MaxTurns :
        /\ gens[g].fail = "ConnectionError, Timeout"
        /\ gens[h].fail = "ConnectionError, Timeout"
        /\ gens[g].n_at_fail = 0
        /\ gens[h].n_at_fail > 0
        /\ gens[g].pc = "ended"
        /\ gens[h].pc = "ended"

\* C10: a cycle abandoned before its generator was exhausted never adds an
\* assistant message: its generator is suspended or closed for ever after
C10_AbandonedNeverWrites ==
    \A g \in 1..MaxTurns :
        gens[g].abandoned =>
            /\ gens[g].pc \in Suspended \cup {"closed"}
            /\ gens[g].asst_adds = 0
            /\ TurnMessages(g) = {}

\* the first chat turn was abandoned by Clear Chat and the second by closing
\* the window, each after tokens had been pumped
C10_Witness ==
    /\ clears = 1
    /\ closed
    /\ \A g \in 1..MaxTurns :
          /\ gens[g].abandoned
          /\ gens[g].pc = "closed"
          /\ gens[g].user_adds = 1
          /\ gens[g].raw # <<>>

(***************************************************************************)
(* Sentences passed to speak                                               *)
(***************************************************************************)
RECURSIVE Concat(_)
Concat(toks) == IF toks = <<>> THEN <<>> ELSE Head(toks) \o Concat(Tail(toks))

\* text is the sentences ss in order, each once, with only blanks before,
\* between and after them
RECURSIVE MadeOf(_, _)
MadeOf(text, ss) ==
    IF ss = <<>> THEN Strip(text) = <<>>
    ELSE LET rest == LStrip(text)
             s == Head(ss)
         IN  /\ s # <<>>
             /\ Strip(s) = s
             /\ Len(rest) >= Len(s)
             /\ SubSeq(rest, 1, Len(s)) = s
             /\ MadeOf(SubSeq(rest, Len(s) + 1, Len(rest)), Tail(ss))

\* "Hel", "lo.", " How are you", "?"
ExampleStream == <<(<<"H", "e">>), (<<"l", ".">>), (<<" ", "H", " ", "u">>), (<<"?">>)>>
\* "Hello." then "How are you?"
ExampleSentences == <<(<<"H", "e", "l", ".">>), (<<"H", " ", "u", "?">>)>>

\* C11: while tokens are pumped, the tokens so far are the sentences passed
\* to speak, in order and each once, followed by the sentence buffer; once the
\* stream has ended, all its tokens are the sentences passed to speak, with
\* only blanks dropped around them; the example stream gives its two sentences
C11_SentencesCoverTokens ==
    LET all == Concat(gens[1].pumped)
        cut == Len(all) - Len(sentence_buffer)
    IN  /\ gens[1].pc = "tokens" =>
              /\ cut >= 0
              /\ SubSeq(all, cut + 1, Len(all)) = sentence_buffer
              /\ MadeOf(SubSeq(all, 1, cut), gens[1].dispatched)
        /\ gens[1].pc = "ended" => MadeOf(all, gens[1].dispatched)
        /\ (gens[1].pc = "ended" /\ gens[1].pumped = ExampleStream)
              => gens[1].dispatched = ExampleSentences

\* the example stream has been pumped to its end
C11_Witness ==
    /\ gens[1].pc = "ended"
    /\ gens[1].pumped = ExampleStream
    /\ gens[1].dispatched = ExampleSentences

(***************************************************************************)
(* Speech synthesis and playback                                           *)
(***************************************************************************)
\* the threads between acquiring and releasing audio_lock
InLock == {t \in DOMAIN tts_tasks : tts_tasks[t].pc \in {"locked", "try", "finally", "exit"}}

\* the playbacks of task t
PlaysOf(t) == {i \in DOMAIN played : played[i].task = t}

\* the callbacks of a kind made by task t
CallsOf(kind, t) ==
    {i \in DOMAIN callbacks : callbacks[i].kind = kind /\ callbacks[i].task = t}

\* C12: at most one _speak_task thread is between acquiring and releasing
\* audio_lock, it is the holder of the lock, and every playback was made by
\* the holder
C12_OnePlaybackAtATime ==
    /\ Cardinality(InLock) <= 1
    /\ \A t \in InLock : audio_lock = t
    /\ \A i \in DOMAIN played : played[i].lock = played[i].task

\* a thread is inside the lock, about to play, while another waits for it
C12_Witness ==
    \E t, u \in DOMAIN tts_tasks :
        /\ tts_tasks[t].pc = "try"
        /\ tts_tasks[u].pc = "waiting"

\* C13: the texts are played in the order in which speak was called
C13_PlayedInSpeakOrder ==
    \A i, j \in DOMAIN played : i < j => played[i].task < played[j].task

\* C14: every playback comes right after the start callback of its task, the
\* stop callback of the task is the next callback and is made once, with the
\* lock still held, after a playback that succeeded and after one that
\* raised; start and stop callbacks alternate
C14_StartPlayStop ==
    /\ \A i \in DOMAIN callbacks :
          /\ callbacks[i].kind = (IF i % 2 = 1 THEN "start" ELSE "stop")
          /\ callbacks[i].lock = callbacks[i].task
          /\ i % 2 = 0 => callbacks[i].task = callbacks[i - 1].task
    /\ \A i \in DOMAIN played :
          /\ played[i].at \in DOMAIN callbacks
          /\ callbacks[played[i].at].kind = "start"
          /\ callbacks[played[i].at].task = played[i].task
          /\ Cardinality(CallsOf("start", played[i].task)) = 1
          /\ Cardinality(CallsOf("stop", played[i].task)) <= 1
          /\ Cardinality(PlaysOf(played[i].task)) = 1
          /\ tts_tasks[played[i].task].pc \in {"exit", "done"} =>
                /\ played[i].at + 1 \in DOMAIN callbacks
                /\ callbacks[played[i].at + 1].kind = "stop"
                /\ callbacks[played[i].at + 1].task = played[i].task

\* a playback that raised and one that succeeded, both followed by their
\* stop callback
C14_Witness ==
    \E i, j \in DOMAIN played :
        /\ ~played[i].ok
        /\ played[j].ok
        /\ tts_tasks[played[i].task].pc = "done"
        /\ tts_tasks[played[j].task].pc = "done"
        /\ Len(callbacks) = 4

\* C15: speak can be called whoever holds the lock, and every thread it
\* started eventually synthesizes and plays its text
C15_QueuedThenPlayed ==
    /\ [](Len(tts_tasks) < MaxSpeak => ENABLED speak)
    /\ \A t \in 1..MaxSpeak : (t \in DOMAIN tts_tasks) ~> (PlaysOf(t) # {})

\* speak was called while another text was playing, and both have been played
C15_Witness ==
    \E t, u \in DOMAIN tts_tasks :
        /\ tts_tasks[u].behind = t
        /\ PlaysOf(t) # {}
        /\ PlaysOf(u) # {}
        /\ \E i \in PlaysOf(t), j \in PlaysOf(u) : i < j
        /\ tts_tasks[u].pc = "done"
        /\ audio_lock = 0


(***************************************************************************)
(* Intent routing and command execution                                    *)
(***************************************************************************)
\* the classification failed: no answer, an answer that is no JSON, or JSON
\* that is not an object
FailedClassification(reply) ==
    \/ reply.status # "ok"
    \/ ~reply.has_response
    \/ ~json_loads(reply.text).ok
    \/ json_loads(reply.text).value.t # "obj"

Classified == ai_pc \in {"raised", "chat", "command", "done"} /\ llm_reply # NoReply

\* C16: get_intent returns an intent and raises nothing whatever the outcome
\* of the classification call, and after a connection error, a timeout, an
\* HTTP error status, an answer that is not JSON or one that is JSON but not
\* an object, the intent is {"action": "chat"}.
C16_AlwaysAnIntentChatOnFailure ==
    Classified =>
        /\ intent.raised = "none"
        /\ FailedClassification(llm_reply) => intent.value = ChatIntent

\* the object the answer denotes names a command and carries the fields the
\* command requires
Complete(f) ==
    \/ Is(f.action, OPEN_URL) /\ f.url # Absent
    \/ Is(f.action, SEARCH_GOOGLE) /\ f.query # Absent
    \/ Is(f.action, OPEN_SHORTCUT) /\ f.key # Absent /\ f.params # Absent

\* C17: when the answer is a JSON object, get_intent returns a command only
\* if the object names open_url with a url, search_google with a query or
\* open_shortcut with a key and params, and then the intent carries these
\* fields; any other action, and any missing field, gives chat.
C17_CommandOnlyWithItsFields ==
    Classified /\ ~FailedClassification(llm_reply) /\ intent.raised = "none" =>
        LET f == json_loads(llm_reply.text).value.f
        IN  IF Complete(f)
            THEN /\ intent.value.action = f.action
                 /\ Is(f.action, OPEN_URL) => intent.value.url = f.url
                 /\ Is(f.action, SEARCH_GOOGLE) => intent.value.query = f.query
                 /\ Is(f.action, OPEN_SHORTCUT) =>
                        intent.value.key = f.key /\ intent.value.params = f.params
            ELSE intent.value = ChatIntent

RM_RF == <<"r", "m", " ", "-", "r", "f">>

\* C18: no process is started for a command string that contains "rm -rf" in
\* any letter case, whichever action resolved to it and whatever its first
\* word.
C18_RmRfNeverLaunched ==
    \A i \in DOMAIN cmd_out.launched :
        ~Contains(Lower(cmd_out.launched[i].cmd), RM_RF)

\* C19: execute_command_directly, given an intent that is not chat, yields
\* exactly one string and no exception leaves it.
C19_OneStringNoException ==
    ai_pc = "done" => Len(cmd_out.yields) = 1 /\ cmd_out.raised = "none"


(***************************************************************************)
(* The filter of transcribed text                                          *)
(***************************************************************************)
\* text holds a hallucination phrase, the letters compared whatever their case
PhraseIn(text) ==
    \E phrase \in COMMON_HALLUCINATIONS :
        \E i \in 0..(Len(text) - Len(phrase)) :
            \A j \in 1..Len(phrase) : Lower(<<text[i + j]>>) = Lower(<<phrase[j]>>)

InFlight(t) == tmp_call[t].pc \in {"written", "finally", "remove"}

\* C21: once the transcription step of a call that wrote the temporary audio
\* file has returned, the file does not exist (unless another call, still
\* running, has written it), whether the transcript was accepted or
\* rejected and whether transcribe or the callback raised.
C21_TempFileRemoved ==
    \A t \in Threads :
        tmp_call[t].pc = "returned" /\ tmp_call[t].path \in TryPaths =>
            ~temp_file \/ \E u \in Threads \ {t} : InFlight(u)

\* a call has returned after the callback raised, nothing else is running
\* and all the recordings have been through
C21_Witness ==
    /\ \E t \in Threads : tmp_call[t].pc = "returned" /\ tmp_call[t].path = "callback_raises"
    /\ \A u \in Threads : ~InFlight(u)
    /\ tmp_calls = MaxTranscriptions


(***************************************************************************)
(* From the transcriber to intent classification                           *)
(***************************************************************************)
\* no call of _process_input is waiting in the event loop
NoInputPending == \A i \in DOMAIN after_queue : after_queue[i].kind # "process_input"

\* the response cycles that were started for a text
TurnsOf(text) == {g \in 1..turns : gens[g].prompt = text}

\* C22: every transcript accepted while no response cycle is in progress is
\* routed to ask_ollama exactly once (once the event loop has run the calls
\* scheduled for it), and the transcripts are routed in the order they were
\* accepted.
C22_RoutedOnceInOrder ==
    NoInputPending =>
        /\ \A i \in DOMAIN heard :
              ~heard[i].busy => Cardinality(TurnsOf(heard[i].text)) = 1
        /\ \A i, j \in DOMAIN heard :
              i < j => \A g \in TurnsOf(heard[i].text), h \in TurnsOf(heard[j].text) : g < h


(***************************************************************************)
(* Failures of the streaming call                                          *)
(***************************************************************************)
\* C23: ask_ollama_chat never raises to the consumer of its tokens: every
\* failure of the streaming call (connection, timeout, HTTP error status,
\* broken stream, a line that is not valid JSON) is caught inside it and
\* answered with a yielded message.
C23_ChatNeverRaises ==
    \A g \in 1..MaxTurns : gens[g].fail # "none" => gens[g].pc # "raised"


(***************************************************************************)
(* The string of a command                                                 *)
(***************************************************************************)
\* the response cycle of generator g was that of a command and is over
CommandDone(g) ==
    /\ gens[g].pc = "ended"
    /\ gens[g].pumped # <<>>
    /\ gens[g].pumped[1] \in CommandTokens

\* C24: the confirmation or error string of a command (open_url,
\* search_google, open_shortcut) is passed to speak exactly once, whole,
\* however many terminators it holds.
C24_CommandSpokenWhole ==
    \A g \in 1..MaxTurns : CommandDone(g) => gens[g].dispatched = gens[g].pumped


(***************************************************************************)
(* The memory file                                                         *)
(***************************************************************************)
\* the last call was a mutation of the history
Mutated == mem_call.op \in {"add_message", "clear_memory"}

\* an empty JSON array
EmptyArray == File("array", <<>>)

ArrayOfMessages(file) ==
    /\ file.kind = "array"
    /\ \A i \in DOMAIN file.entries : "content" \in DOMAIN file.entries[i]

\* C26: the constructor of ChatMemory never raises, and the history is empty
\* when the memory file is missing, unreadable, not valid JSON, or valid JSON
\* that is not an array of messages.
C26_BadFileLoadsEmpty ==
    (mem_call.op = "init" /\ ~ArrayOfMessages(memory_file)) =>
        mem_call.raised = "none" /\ get_history = <<>>

\* C27: after an add_message or clear_memory whose write succeeded, the file
\* holds a JSON array from which a new ChatMemory loads, without an error,
\* exactly the messages of the history, in the same order.
C27_FileLoadsAsHistory ==
    (Mutated /\ mem_call.wrote) =>
        /\ memory_file.kind = "array"
        /\ LoadRaises(memory_file) = "none"
        /\ LoadMemory(memory_file) = history

\* the file holds two messages or more, their contents written with
\* backslashes, after the history was cut to its size
C27_Witness ==
    /\ mem_call.op = "add_message"
    /\ mem_call.wrote
    /\ Len(history) >= 2
    /\ Len(added) > Len(history)
    /\ memory_file.entries # history
    /\ LoadMemory(memory_file) = history

\* C28: when the write of the file fails during add_message or
\* clear_memory, the call does not raise and the history reflects the
\* mutation, cut to max_memory_size: emptied by clear_memory, and after
\* add_message at most max_memory_size long with the new message last.
C28_WriteFailureKeepsHistory ==
    (Mutated /\ ~mem_call.wrote) =>
        /\ mem_call.raised = "none"
        /\ Len(history) <= max_memory_size
        /\ mem_call.op = "clear_memory" => history = <<>>
        /\ (mem_call.op = "add_message" /\ max_memory_size >= 1) =>
              history # <<>> /\ history[Len(history)] = added[Len(added)]

\* C29: get_history returns a copy: when the caller appends to the list it
\* got, or removes an item from it, the history of the ChatMemory, which is
\* what later get_history calls return, does not change.
C29_ReturnedListIsACopy ==
    [][(got.state = "got" /\ got'.state = "changed") => get_history' = get_history]_vars

\* the caller has changed the list it got from a history that was not empty
C29_Witness ==
    /\ got.state = "changed"
    /\ history # <<>>
    /\ got.items # history


(***************************************************************************)
(* run_shortcut                                                            *)
(***************************************************************************)
\* the command of the shortcut "find" for the query "a b"
FindAB == <<"f", "i", "r", "e", "f", "o", "x", " ", "x", ".", "i", "o", "?", "q", "=",
            "a", "%", "2", "0", "b">>

\* C30: run_shortcut starts a process, with exactly one Popen call, and
\* returns the command string, the parameters URL-encoded and substituted,
\* only when the key is in PERSONAL_SHORTCUTS and the split command passes
\* _is_command_safe; an unknown key raises ValueError, and an unsafe command
\* raises an error whose message contains 'not allowed for security
\* reasons'; neither starts a process.
C30_LaunchOnlyKnownAndSafe ==
    \A i \in DOMAIN shortcut_log :
        LET call == shortcut_log[i]
            out == call.out
            known == call.key \in DOMAIN PERSONAL_SHORTCUTS
            formatted == Format(PERSONAL_SHORTCUTS[call.key], call.kwargs)
        IN  /\ (out.launched # <<>> \/ out.returned # <<>>) =>
                  /\ known
                  /\ formatted.ok /\ is_command_safe(Words(formatted.s, <<>>))
                  /\ Len(out.launched) = 1
                  /\ out.launched[1].argv = Words(formatted.s, <<>>)
                  /\ out.returned = <<formatted.s>>
                  /\ out.raised = "none"
            /\ (out.returned # <<>> /\ call.key = <<"f", "i", "n", "d">>
                  /\ call.kwargs.v = <<"a", " ", "b">>) => out.returned = <<FindAB>>
            /\ ~known => out.raised = "ValueError" /\ out.launched = <<>>
            /\ (known /\ formatted.ok /\ ~is_command_safe(Words(formatted.s, <<>>))) =>
                  /\ out.raised # "none"
                  /\ Contains(out.message, <<"not allowed for security reasons">>)
                  /\ out.launched = <<>>
            /\ call.key = <<"w", "i", "p", "e">> =>
                  Contains(out.message, <<"not allowed for security reasons">>)

\* one call started the search for "a b", another was refused as unsafe
C30_Witness ==
    \E i, j \in DOMAIN shortcut_log :
        /\ shortcut_log[i].out.returned = <<FindAB>>
        /\ Len(shortcut_log[i].out.launched) = 1
        /\ shortcut_log[j].key = <<"w", "i", "p", "e">>
        /\ shortcut_log[j].out.raised = "Exception"


(***************************************************************************)
(* The segmenter: force-emit, the volume floor, short pauses               *)
(***************************************************************************)
\* C31: after a force-emit at max_voiced_frames the segmenter is still
\* Speaking, with an empty buffer, so that the frames that follow, trailing
\* non-speech frames too, are appended and none is dropped.
C31_SpeakingAfterForceEmit ==
    [][\A t \in Workers :
          (pc[t] = "after_ptb" /\ site[t] = "max" /\ pc'[t] = "while")
              => (is_speaking' /\ voiced_frames_buffer' = <<>>)]_vars

\* every frame the stream delivered has been through the segmenter
Consumed ==
    /\ audio_queue = <<>>
    /\ pc[Caller] = "idle"
    /\ \A t \in Workers : pc[t] \in {"unborn", "while", "get", "done"}

\* C32: a frame under the volume floor counts as a non-speech frame: while
\* Speaking each such frame is appended and counted in silent_frames_count,
\* so the segmenter is never left Speaking after more than silence_threshold
\* of them in a row.
C32_QuietFrameCountsAsSilence ==
    (Consumed /\ is_listening /\ is_speaking)
        => /\ silent_frames_count >= quiet
           /\ quiet <= silence_threshold

\* worker t works on a frame above the floor while Speaking
SpeakingStep(t) ==
    /\ pc[t] = "frame"
    /\ pc'[t] # "frame"
    /\ is_speaking
    /\ frame[t].rms >= STT_MIN_VOLUME

\* a non-speech frame of a pause that is not over is appended and counted
PauseFrameKept(t) ==
    (~frame[t].speech /\ silent_frames_count + 1 <= silence_threshold)
        => /\ voiced_frames_buffer' = Append(voiced_frames_buffer, frame[t])
           /\ silent_frames_count' = silent_frames_count + 1
           /\ is_speaking'
           /\ pc'[t] = "while"
           /\ handed' = handed

\* the utterance ends by silence only when the count exceeds the threshold
EndsBySilenceOnlyAbove(t) ==
    (boundary' # boundary \/ (pc'[t] = "ptb_join" /\ site'[t] = "silence"))
        => (~frame[t].speech /\ silent_frames_count + 1 > silence_threshold)

\* C33 as stated: while Speaking, the frames of a pause of at most
\* silence_threshold frames are appended, the speech frame after them is
\* appended and resets silent_frames_count, and nothing is emitted or
\* discarded; silence ends the utterance only above the threshold.
C33_ShortPauseKeepsUtterance ==
    [][\A t \in Workers : SpeakingStep(t) =>
          /\ PauseFrameKept(t)
          /\ frame[t].speech =>
                /\ voiced_frames_buffer' = Append(voiced_frames_buffer, frame[t])
                /\ silent_frames_count' = 0
                /\ is_speaking'
                /\ pc'[t] = "while"
                /\ handed' = handed
          /\ EndsBySilenceOnlyAbove(t)]_vars

\* C33, amended: as C33, but the speech frame that brings the buffer past
\* max_voiced_frames starts the force-emit of the utterance.
C33_ShortPauseKeepsUtteranceUpToMax ==
    [][\A t \in Workers : SpeakingStep(t) =>
          /\ PauseFrameKept(t)
          /\ frame[t].speech =>
                /\ voiced_frames_buffer' = Append(voiced_frames_buffer, frame[t])
                /\ silent_frames_count' = 0
                /\ is_speaking'
                /\ handed' = handed
                /\ IF Len(voiced_frames_buffer) + 1 > max_voiced_frames
                     THEN pc'[t] = "ptb_join" /\ site'[t] = "max"
                     ELSE pc'[t] = "while"
          /\ EndsBySilenceOnlyAbove(t)]_vars

\* a speech frame has followed a pause of silence_threshold frames and the
\* segmenter is still Speaking, all frames in the buffer
C33_Witness ==
    /\ is_speaking
    /\ silent_frames_count = 0
    /\ \E i \in DOMAIN voiced_frames_buffer :
          /\ i + silence_threshold <= Len(voiced_frames_buffer) - 1
          /\ \A j \in i + 1 .. i + silence_threshold : ~voiced_frames_buffer[j].speech
          /\ voiced_frames_buffer[i].speech
          /\ voiced_frames_buffer[i + silence_threshold + 1].speech


(***************************************************************************)
(* One sentence for each token                                             *)
(***************************************************************************)
\* _update_assistant_bubble has taken one more token from the stream
TokenStep ==
    /\ gens[1].pc = "tokens"
    /\ Len(gens'[1].pumped) = Len(gens[1].pumped) + 1

\* C34: a step of _update_assistant_bubble on a token passes at most one
\* sentence to speak: the buffer with the token up to and including its first
\* terminator, blanks around it dropped; what comes after that terminator is
\* the new buffer, further terminators and all; a sentence passed to speak
\* comes after those passed before it.
C34_OneSentencePerToken ==
    [][TokenStep =>
          LET tok == gens'[1].pumped[Len(gens'[1].pumped)]
              buf == sentence_buffer \o tok
              firsts == {i \in DOMAIN buf : /\ buf[i] \in Terminators
                                            /\ \A j \in 1..(i - 1) :
                                                  buf[j] \notin Terminators}
          IN  /\ Len(gens'[1].dispatched) <= Len(gens[1].dispatched) + 1
              /\ firsts = {} =>
                    /\ gens'[1].dispatched = gens[1].dispatched
                    /\ sentence_buffer' = buf
              /\ \A i \in firsts :
                    /\ gens'[1].dispatched =
                          Append(gens[1].dispatched, Strip(SubSeq(buf, 1, i)))
                    /\ sentence_buffer' = SubSeq(buf, i + 1, Len(buf))]_vars

\* a sentence has been passed to speak and the buffer kept holds a
\* terminator: the token had two
C34_Witness ==
    /\ gens[1].pc = "tokens"
    /\ gens[1].dispatched # <<>>
    /\ \E i \in DOMAIN sentence_buffer : sentence_buffer[i] \in Terminators


(***************************************************************************)
(* Network calls and the event loop                                        *)
(***************************************************************************)
\* generator g makes the request of get_intent or posts the generation
\* request in this step
NetworkCall(g) ==
    \/ gens[g].pc = "new" /\ gens'[g].pc \in {"chat", "cmd", "raised"}
    \/ gens[g].pc = "user_added" /\ gens'[g].pc \in {"streaming", "error_yielded"}

\* C35: the request of get_intent and the generation request are made off
\* the thread of the event loop: when one is made, the event loop is not
\* inside a callback, so it can go on running the callbacks that are due.
C35_NetworkOffUiThread ==
    [][\A g \in 1..MaxTurns : NetworkCall(g) => ui.state = "idle"]_vars


(***************************************************************************)
(* The guard and the input controls after a response cycle                 *)
(***************************************************************************)
RECURSIVE DispatchedUpTo(_)
\* the calls of speak made by the response cycles 1..g
DispatchedUpTo(g) ==
    IF g = 0 THEN 0 ELSE Len(gens[g].dispatched) + DispatchedUpTo(g - 1)

\* every call of speak has been followed to its _on_speaking_stop
AllSpeechDone ==
    /\ tts_waiting = 0
    /\ ~tts_playing
    /\ spoken = DispatchedUpTo(MaxTurns)
                  + Cardinality({b \in DOMAIN bubbles : bubbles[b].text = WelcomeText})

\* the event loop has nothing left to run
LoopAtRest == ~closed /\ ui.state = "idle" /\ after_queue = <<>>

\* C36: a response cycle releases the guard on each of its exits, and once
\* all speech has finished the input controls are enabled: when the event
\* loop has nothing left to run and every speech thread has made its two
\* callbacks, is_processing is false and the controls are enabled.
C36_GuardReleasedControlsEnabled ==
    (LoopAtRest /\ AllSpeechDone) => (~is_processing /\ ~controls_disabled)


(***************************************************************************)
(* Sessions of the listener                                                *)
(***************************************************************************)
\* the _process_vad threads that have started and not returned
AliveWorkers == {t \in Workers : pc[t] \notin {"unborn", "done"}}

\* C37: whenever is_listening is true, exactly one _process_vad worker is
\* alive: the worker of the session has not been ended by a sentinel or a
\* frame an earlier session left in the queue, and no worker of an earlier
\* session runs beside it.
C37_OneWorkerWhileListening ==
    is_listening => Cardinality(AliveWorkers) = 1


\* the numbers of the frames of an utterance
FramesOf(utterance) == {utterance.frames[k].n : k \in DOMAIN utterance.frames}

\* C38: no captured frame is in two utterances handed to transcription,
\* whether stop_listening or the worker handed them over.
C38_NoFrameInTwoUtterances ==
    \A i, j \in DOMAIN handed :
        i # j => FramesOf(handed[i]) \cap FramesOf(handed[j]) = {}


(***************************************************************************)
(* The microphone flag of the window and the listener                      *)
(***************************************************************************)
\* C39: while the window is open, its is_listening flag equals the
\* listener's: when the window shows not-listening the listener has been
\* stopped.
C39_ListeningFlagsAgree ==
    ~closed => gui_is_listening = is_listening


(***************************************************************************)
(* The prompt of a chat turn                                               *)
(***************************************************************************)
\* C40: the prompt ask_ollama_chat sends is one role-prefixed line for each
\* message of the bounded history, the last of them the current user
\* message, which is in the prompt once.
C40_PromptIsHistoryWithMessageOnce ==
    payload.state = "built" =>
        LET list == payload.history
            current == list[Len(list)]
        IN  /\ list # <<>>
            /\ current.role = "user" /\ current.content = payload.text
            /\ payload.prompt = JoinLines([i \in DOMAIN list |-> MessageLine(list[i])])

====
